---- MODULE Spec2Model ----
(***************************************************************************)
(* State-machine model of UUEBridgeSubsystem (the file-based bridge between *)
(* the Python orchestrator and the UE host): the bridge state machine, the  *)
(* dual-format (USDA text / JSON) dispatch of ProcessStateFile, the poll    *)
(* and debounce logic of Tick, and the behavioral signal engine.            *)
(*                                                                          *)
(* Time is counted in units of 25 ms: DebounceTime = 0.05 s = 2 units,      *)
(* PollInterval = 0.5 s = 20 units, FPlatformProcess::Sleep(0.1f) = 4.      *)
(* File modification times are values of a wall clock that advances by one *)
(* on every write to the exchange directory.                                *)
(***************************************************************************)
EXTENDS Integers, Sequences, FiniteSets, TLC

\* ------------------------------------------------------------------------
\* Program constants
\* ------------------------------------------------------------------------
DebounceTime == 2
PollInterval == 20
SleepTime == 4
MaxRetries == 3
DefaultTotalQuestions == 8
HESITATION_THRESHOLD_MS == 10000
RAPID_CLICK_THRESHOLD_MS == 500
DEPLETED_AVG_THRESHOLD_MS == 15000
HESITATION_COUNT_THRESHOLD == 2
RAPID_CLICK_COUNT_THRESHOLD == 3

\* ------------------------------------------------------------------------
\* Bounds of the model
\* ------------------------------------------------------------------------
\* longest frame (the DeltaTime of a Tick call), in time units
MaxDelta == 3
\* number of writes to the exchange directory (values of the wall clock)
MaxClock == 2
\* number of answers submitted
MaxResponses == 2
\* number of questions announced by the orchestrator in the modelled documents
NumQuestions == 2
\* number of answers given to the signal engine when it is examined alone
MaxHistory == 6
\* most attribute lines of a prim
MaxLines == 9
\* number of attribute writes when the codec is examined alone
MaxEdits == 2
\* number of writes to bridge_state.usda in the exchange of one question
MaxExchange == 3
\* largest index of a question message whose depth label is examined
MaxIndex == 9
\* the frames the render thread writes to the pixel bus
MaxFrames == 4
\* the SendAnswer calls counted for one question
MaxSent == 2

Min(a, b) == IF a < b THEN a ELSE b

\* ------------------------------------------------------------------------
\* EUEBridgeState
\* ------------------------------------------------------------------------
BridgeStates ==
  {"Idle", "WaitingForBridge", "Connected", "QuestionActive",
   "AnswerPending", "Transitioning", "Complete", "Error"}

\* a depth label without the default branch of the switch
GetDepthLabelForIndexEightOnly(Index) ==
  CASE Index \in {0, 1} -> "SURFACE"
    [] Index \in {2, 3} -> "PATTERNS"
    [] Index \in {4, 5} -> "FEELINGS"
    [] Index \in {6, 7} -> "CORE"
    [] OTHER -> ""

\* GetDepthLabelForIndex (lines 1357-1367); Index / 2 rounds toward zero
GetDepthLabelForIndex(Index) ==
  LET half == IF Index >= 0 THEN Index \div 2 ELSE 0 - ((0 - Index) \div 2)
  IN CASE half = 0 -> "SURFACE"
       [] half = 1 -> "PATTERNS"
       [] half = 2 -> "FEELINGS"
       [] half = 3 -> "CORE"
       [] OTHER -> "CORE"

\* FUEBridgeQuestion: the fields the state machine and the signal engine read.
\* OptionLabels is the array of option labels (OptionDirections is parallel).
\* A question handler sets DepthLabel from the index (lines 913, 1098).
Question(index, total, id, labels) ==
  [Index |-> index, Total |-> total, QuestionId |-> id, OptionLabels |-> labels,
   DepthLabel |-> GetDepthLabelForIndex(index)]

\* FUEBridgeQuestion(): the default-constructed (empty) question
EmptyQuestion == [Question(0, 0, "", <<>>) EXCEPT !.DepthLabel = ""]

\* FBehavioralSignals, default-constructed
EmptySignals ==
  [HesitationCount |-> 0, RapidClickCount |-> 0,
   LastResponseTimeMs |-> 0, AverageResponseTimeMs |-> 0,
   DetectedState |-> "", RecommendedExpert |-> "",
   BurnoutLevel |-> "", MomentumPhase |-> "",
   TotalResponsesRecorded |-> 0]

\* ------------------------------------------------------------------------
\* State documents.  A document is what the codec can read from it: the
\* message_type / sync_status variants and the attributes of the payload
\* blocks.  An attribute that the document lacks reads as "" (text format:
\* ParseUsdaAttribute returns "", Atoi("") = 0; JSON: GetStringField returns
\* "", GetIntegerField returns 0), so a missing number is 0 and a missing
\* string is "".
\* ------------------------------------------------------------------------
Doc(type, sync, tq, index, total, id, labels, path) ==
  [message_type |-> type, sync_status |-> sync, total_questions |-> tq,
   index |-> index, total |-> total, question_id |-> id, labels |-> labels,
   usd_path |-> path]

\* an unparseable state.json (FJsonSerializer::Deserialize fails)
Garbage == Doc("#garbage", "", 0, 0, 0, "", <<>>, "")
EmptyDoc == Doc("", "", 0, 0, 0, "", <<>>, "")

ProfileName == "cognitive_profile.usda"
SubstrateName == "cognitive_substrate.usda"

ReadyDoc(n) == Doc("ready", "ready", n, 0, 0, "", <<>>, "")
QuestionDoc(sync, i, n, id, labels) == Doc("question", sync, 0, i, n, id, labels, "")
TransitionDoc == Doc("transition", "transition", 0, 0, 0, "", <<>>, "")
FinaleDoc(path) == Doc("finale", "complete", 0, 0, 0, "", <<>>, path)

\* ------------------------------------------------------------------------
\* Host events (the multicast delegates)
\* ------------------------------------------------------------------------
Event(name, code, num, q) == [name |-> name, code |-> code, num |-> num, q |-> q]
OnBridgeReady(n) == Event("OnBridgeReady", "", n, EmptyQuestion)
OnQuestionReady(q) == Event("OnQuestionReady", "", 0, q)
OnTransitionReady == Event("OnTransitionReady", "", 0, EmptyQuestion)
OnProfileComplete(path) == Event("OnProfileComplete", path, 0, EmptyQuestion)
OnBridgeError(code) == Event("OnBridgeError", code, 0, EmptyQuestion)
OnUsdProfileUpdated(path) == Event("OnUsdProfileUpdated", path, 0, EmptyQuestion)

VARIABLES
  \* --- UUEBridgeSubsystem fields
  CurrentState, CurrentQuestion, Signals, ResponseTimes,
  bIsActive, bUsingUsdMode,
  TimeSinceLastStateChange, bStateChangePending,
  TimeSinceLastUsdChange, bUsdChangePending,
  PollTimer, LastStateFileTime, LastUsdFileTime,
  \* --- the exchange directory and the clocks
  usdaFile, jsonFile, profileFile, substrateFile,
  clock,
  \* --- observation of the run
  last, audit, peer, writes, stage,
  \* --- the exported profile document; the Profile returned by the last
  \* call of ParseCognitiveProfile (ret), whether it could load its file
  \* (read) and every <<content, Profile, state>> returned (log)
  profileDoc, parsed, call, bus, hud

bridgeVars ==
  <<CurrentState, CurrentQuestion, Signals, ResponseTimes, bIsActive, bUsingUsdMode>>
timerVars ==
  <<TimeSinceLastStateChange, bStateChangePending, TimeSinceLastUsdChange,
    bUsdChangePending, PollTimer, LastStateFileTime, LastUsdFileTime>>
fileVars == <<usdaFile, jsonFile, profileFile, substrateFile, clock>>
vars ==
  <<bridgeVars, timerVars, fileVars, last, audit, peer, writes, stage, profileDoc, parsed, call, bus, hud>>

\* ------------------------------------------------------------------------
\* The bridge as a value: the fields a handler reads and writes, the events
\* it has broadcast and the functions it has entered during one operation.
\* ------------------------------------------------------------------------
Bridge(state, question, signals, times, usd) ==
  [CurrentState |-> state, CurrentQuestion |-> question, Signals |-> signals,
   ResponseTimes |-> times, bUsingUsdMode |-> usd,
   events |-> <<>>, calls |-> {}, ret |-> TRUE]

Self == Bridge(CurrentState, CurrentQuestion, Signals, ResponseTimes, bUsingUsdMode)

SetState(b, NewState) == [b EXCEPT !.CurrentState = NewState]
Broadcast(b, ev) == [b EXCEPT !.events = Append(@, ev)]
Enter(b, fn) == [b EXCEPT !.calls = @ \cup {fn}]

\* What one call can see of the exchange directory: the files, and whether a
\* LoadFileToString of each succeeds (a file that exists can still fail to
\* load while its writer holds it open).
Env(usdaReadable, jsonReadable) ==
  [usda |-> usdaFile, json |-> jsonFile,
   usdaReadable |-> usdaFile.exists /\ usdaReadable,
   jsonReadable |-> jsonFile.exists /\ jsonReadable,
   profileReadable |-> profileFile.exists]

\* whether a LoadFileToString succeeds, for a call that loads a file
Loads(called) == IF called THEN BOOLEAN ELSE {TRUE}

\* ------------------------------------------------------------------------
\* The attribute codec of the text format (lines 1016-1060, 1186-1233).
\* A document is the sequence of its prims; a prim has a name and the
\* sequence of its attribute lines; an attribute line
\*     <type> <name> = <rest>
\* keeps as rest the characters that follow "= " (for a string attribute:
\* that follow the opening quote) up to the end of the line, so the rest of
\* a string attribute ends with its closing quote.  Names are whole words
\* and values hold no brace, so the searches of the code match attribute
\* lines only.
\* ------------------------------------------------------------------------
Quote == "\""
Backslash == "\\"
Digits == {"0", "1", "2", "3", "4", "5", "6", "7", "8", "9"}
LineEnds == {"\n", "\r", ";", " ", "\t"}

Attr(type, name, rest) == [type |-> type, name |-> name, rest |-> rest]
Prim(name, attrs) == [name |-> name, attrs |-> attrs]

\* FString::Find from a position: the first index of a character, 0 for
\* INDEX_NONE
FindChar(s, chars) ==
  IF \E i \in 1..Len(s) : s[i] \in chars
  THEN CHOOSE i \in 1..Len(s) : s[i] \in chars /\ \A j \in 1..(i - 1) : s[j] \notin chars
  ELSE 0

\* the longest prefix of s made of the characters of chars
Span(s, chars) ==
  LET n == IF \E i \in 1..Len(s) : s[i] \notin chars
           THEN (CHOOSE i \in 1..Len(s) : s[i] \notin chars /\ \A j \in 1..(i - 1) : s[j] \in chars) - 1
           ELSE Len(s)
  IN SubSeq(s, 1, n)

\* NewValue.Replace("\\", "\\\\").Replace("\"", "\\\"") (line 1200)
RECURSIVE EscapedValue(_)
EscapedValue(v) ==
  IF v = <<>> THEN <<>>
  ELSE (IF Head(v) \in {Quote, Backslash} THEN <<Backslash, Head(v)>> ELSE <<Head(v)>>)
       \o EscapedValue(Tail(v))

\* the attribute lines of a document with a type and a name, as positions
\* <<prim, line>>, and the first of them in the text
Lines(Content, types, AttrName) ==
  {p \in {<<i, j>> : i \in DOMAIN Content, j \in 1..MaxLines} :
     /\ p[2] \in DOMAIN Content[p[1]].attrs
     /\ Content[p[1]].attrs[p[2]].type \in types
     /\ Content[p[1]].attrs[p[2]].name = AttrName}

FirstLine(S) ==
  CHOOSE p \in S : \A q \in S : p[1] < q[1] \/ (p[1] = q[1] /\ p[2] <= q[2])

Replaced(Content, p, rest) == [Content EXCEPT ![p[1]].attrs[p[2]].rest = rest]

TypePrefixes == <<"int", "float", "double", "bool">>

\* UpdateUsdaAttribute (lines 1186-1233).  PrimName is not used: the search
\* starts at the beginning of the document.
UpdateUsdaAttribute(Content, PrimName, AttrName, NewValue, bIsString) ==
  IF bIsString
  THEN LET S == Lines(Content, {"string"}, AttrName)
       IN IF S = {} THEN Content
          ELSE LET p == FirstLine(S)
                   rest == Content[p[1]].attrs[p[2]].rest
                   EndIdx == FindChar(rest, {Quote})
               IN IF EndIdx = 0 THEN Content
                  ELSE Replaced(Content, p,
                                EscapedValue(NewValue) \o SubSeq(rest, EndIdx, Len(rest)))
  ELSE LET found == {k \in DOMAIN TypePrefixes : Lines(Content, {TypePrefixes[k]}, AttrName) # {}}
       IN IF found = {} THEN Content
          ELSE LET k == CHOOSE k \in found : \A other \in found : k <= other
                   p == FirstLine(Lines(Content, {TypePrefixes[k]}, AttrName))
                   rest == Content[p[1]].attrs[p[2]].rest
                   stop == FindChar(rest, LineEnds)
                   EndIdx == IF stop = 0 THEN Len(rest) + 1 ELSE stop
               IN Replaced(Content, p, NewValue \o SubSeq(rest, EndIdx, Len(rest)))

\* UpdateUsdaVariant (lines 1166-1183): the text between the opening quote
\* of the first line  string <VariantSetName> = "  and the next quote is
\* replaced by NewValue as it is
UpdateUsdaVariant(Content, VariantSetName, NewValue) ==
  LET S == Lines(Content, {"string"}, VariantSetName)
  IN IF S = {} THEN Content
     ELSE LET p == FirstLine(S)
              rest == Content[p[1]].attrs[p[2]].rest
              EndIdx == FindChar(rest, {Quote})
          IN IF EndIdx = 0 THEN Content
             ELSE Replaced(Content, p, NewValue \o SubSeq(rest, EndIdx, Len(rest)))

\* the captures of the three patterns of ParseUsdaAttribute on the rest of
\* a line: "([^"]*)" , (-?\d+) , ([\d.]+); Unmatched when the pattern fails
Unmatched == <<"unmatched">>
StringCapture(rest) ==
  LET EndIdx == FindChar(rest, {Quote})
  IN IF EndIdx = 0 THEN Unmatched ELSE SubSeq(rest, 1, EndIdx - 1)
IntCapture(rest) ==
  LET sign == IF rest # <<>> /\ Head(rest) = "-" THEN <<"-">> ELSE <<>>
      digits == Span(SubSeq(rest, Len(sign) + 1, Len(rest)), Digits)
  IN IF digits = <<>> THEN Unmatched ELSE sign \o digits
FloatCapture(rest) ==
  LET number == Span(rest, Digits \cup {"."})
  IN IF number = <<>> THEN Unmatched ELSE number

\* all the attribute lines of a document, in the order of the text
RECURSIVE AllLines(_)
AllLines(Content) ==
  IF Content = <<>> THEN <<>> ELSE Head(Content).attrs \o AllLines(Tail(Content))

\* the first capture among the lines of given types and name, by the
\* pattern of those types
FirstCapture(PrimContent, types, AttrName) ==
  LET Capture(rest) == IF "string" \in types THEN StringCapture(rest)
                       ELSE IF "int" \in types THEN IntCapture(rest)
                       ELSE FloatCapture(rest)
      S == {j \in DOMAIN PrimContent :
              /\ PrimContent[j].type \in types
              /\ PrimContent[j].name = AttrName
              /\ Capture(PrimContent[j].rest) # Unmatched}
  IN IF S = {} THEN Unmatched
     ELSE Capture(PrimContent[CHOOSE j \in S : \A other \in S : j <= other].rest)

\* The text of a document as its lines in order: the header of each prim
\* (a line of type "def"), its lines, its closing brace (a line of type
\* "}").  A prim may hold the header and the closing brace of a child prim
\* among its lines.
RECURSIVE UsdaText(_)
UsdaText(Content) ==
  IF Content = <<>> THEN <<>>
  ELSE <<Attr("def", Head(Content).name, <<>>)>> \o Head(Content).attrs
       \o <<Attr("}", "", <<>>)>> \o UsdaText(Tail(Content))

\* ParseUsdaAttribute (lines 1016-1060).  The pattern
\*     def [^"]*"<PrimPath>"[^{]*\{([^}]*)\}
\* captures the text from the first header of a prim named PrimPath up to
\* the first closing brace after it; without a match the whole document is
\* searched.  Then the string pattern, the int pattern, the float/double
\* pattern, else "".
ParseUsdaAttribute(Content, PrimPath, AttrName) ==
  LET text == UsdaText(Content)
      prims == {i \in DOMAIN text : text[i].type = "def" /\ text[i].name = PrimPath}
      PrimContent ==
        IF prims # {}
        THEN LET h == CHOOSE i \in prims : \A other \in prims : i <= other
                 closing == {k \in (h + 1) .. Len(text) : text[k].type = "}"}
             IN SubSeq(text, h + 1,
                       (CHOOSE k \in closing : \A other \in closing : k <= other) - 1)
        ELSE AllLines(Content)
      s == FirstCapture(PrimContent, {"string"}, AttrName)
      n == FirstCapture(PrimContent, {"int"}, AttrName)
      f == FirstCapture(PrimContent, {"float", "double"}, AttrName)
  IN IF s # Unmatched THEN s
     ELSE IF n # Unmatched THEN n
     ELSE IF f # Unmatched THEN f
     ELSE <<>>

\* ------------------------------------------------------------------------
\* Profile parsing, as far as the state machine is concerned
\* ------------------------------------------------------------------------
\* a failed load that would return without reporting
ParseCognitiveProfileSilent(b, UsdPath, env) == Enter(b, "ParseCognitiveProfile")

ParseCognitiveProfile(b, UsdPath, env) ==
  IF UsdPath = ProfileName /\ env.profileReadable
    THEN Enter(b, "ParseCognitiveProfile")
    ELSE Broadcast(Enter(b, "ParseCognitiveProfile"), OnBridgeError("ProfileParseFailure"))

\* ------------------------------------------------------------------------
\* JSON state handlers
\* ------------------------------------------------------------------------
HandleReadyState(b, doc) ==
  Broadcast(SetState(Enter(b, "HandleReadyState"), "Connected"),
            OnBridgeReady(doc.total_questions))

HandleQuestionState(b, doc) ==
  LET q == Question(doc.index, doc.total, doc.question_id, doc.labels)
      b1 == [Enter(b, "HandleQuestionState") EXCEPT !.CurrentQuestion = q]
  IN Broadcast(SetState(b1, "QuestionActive"), OnQuestionReady(q))

HandleTransitionState(b, doc) ==
  Broadcast(SetState(Enter(b, "HandleTransitionState"), "Transitioning"),
            OnTransitionReady)

HandleFinaleState(b, doc, env) ==
  LET b1 == ParseCognitiveProfile(Enter(b, "HandleFinaleState"), doc.usd_path, env)
  IN Broadcast(SetState(b1, "Complete"), OnProfileComplete(doc.usd_path))

\* ------------------------------------------------------------------------
\* Text-format (USDA) state handlers
\* ------------------------------------------------------------------------
HandleUsdaReadyState(b, doc) ==
  LET TotalQuestions ==
        IF doc.total_questions <= 0 THEN DefaultTotalQuestions ELSE doc.total_questions
      b1 == [Enter(b, "HandleUsdaReadyState") EXCEPT !.bUsingUsdMode = TRUE]
  IN Broadcast(SetState(b1, "Connected"), OnBridgeReady(TotalQuestions))

\* lines 1085-1096: the labels are read from the prims Option_0, Option_1,
\* Option_2 of the text, which holds one prim per option of the message and
\* no other label attribute.  For a prim that is absent ParseUsdaAttribute
\* searches the whole document (lines 1027-1030) and finds the first label
\* of the text; an empty label is skipped.
HandleUsdaQuestionState(b, doc) ==
  LET Read == [labels \in {doc.labels} |->
                 SelectSeq([i \in 1..3 |-> IF i <= Len(labels) THEN labels[i]
                                           ELSE IF labels # <<>> THEN labels[1]
                                           ELSE ""],
                           LAMBDA l : l # "")]
      q == Question(doc.index, doc.total, doc.question_id, Read[doc.labels])
      b1 == [Enter(b, "HandleUsdaQuestionState") EXCEPT !.CurrentQuestion = q]
  IN Broadcast(SetState(b1, "QuestionActive"), OnQuestionReady(q))

HandleUsdaTransitionState(b, doc) ==
  Broadcast(SetState(Enter(b, "HandleUsdaTransitionState"), "Transitioning"),
            OnTransitionReady)

HandleUsdaFinaleState(b, doc, env) ==
  LET b1 == ParseCognitiveProfile(Enter(b, "HandleUsdaFinaleState"), doc.usd_path, env)
  IN Broadcast(SetState(b1, "Complete"), OnProfileComplete(doc.usd_path))

\* ProcessBridgeStateUsda: ret is the function's return value
ProcessBridgeStateUsda(b, env) ==
  LET b0 == Enter(b, "ProcessBridgeStateUsda")
      doc == env.usda.doc
  IN IF ~env.usdaReadable THEN [b0 EXCEPT !.ret = FALSE]
     ELSE [ (CASE doc.message_type = "ready" -> HandleUsdaReadyState(b0, doc)
               [] doc.message_type = "question" /\ doc.sync_status = "question_pending"
                    -> HandleUsdaQuestionState(b0, doc)
               [] doc.message_type = "transition" -> HandleUsdaTransitionState(b0, doc)
               [] doc.message_type = "finale" -> HandleUsdaFinaleState(b0, doc, env)
               [] OTHER -> b0)
            EXCEPT !.ret = TRUE ]

\* a parse failure that would also enter the Error state
JsonParseFailedToError(b) ==
  SetState(Broadcast(b, OnBridgeError("JsonParseFailure")), "Error")

\* ProcessStateFile, lines 809-813: Deserialize failed
JsonParseFailed(b) == Broadcast(b, OnBridgeError("JsonParseFailure"))

\* ProcessStateFile, lines 797-838: the JSON half
ProcessStateJson(b, env) ==
  LET doc == env.json.doc
      b0 == Enter(b, "LoadStateJson")
  IN IF ~env.jsonReadable THEN b0
     ELSE IF doc = Garbage THEN JsonParseFailed(Enter(b0, "DeserializeJson"))
     ELSE LET b1 == [Enter(b0, "DeserializeJson") EXCEPT !.bUsingUsdMode = FALSE]
          IN CASE doc.message_type = "ready" -> HandleReadyState(b1, doc)
               [] doc.message_type = "question" -> HandleQuestionState(b1, doc)
               [] doc.message_type = "transition" -> HandleTransitionState(b1, doc)
               [] doc.message_type = "finale" -> HandleFinaleState(b1, doc, env)
               [] OTHER -> b1

ProcessStateFile(b, env) ==
  LET b0 == Enter(b, "ProcessStateFile")
      u == IF env.usda.exists THEN ProcessBridgeStateUsda(b0, env) ELSE b0
  IN IF env.usda.exists /\ u.ret THEN u ELSE ProcessStateJson(u, env)

\* ------------------------------------------------------------------------
\* Behavioral signal engine
\* ------------------------------------------------------------------------
RECURSIVE SumSeq(_)
SumSeq(s) == IF s = <<>> THEN 0 ELSE Head(s) + SumSeq(Tail(s))

Classification(state, expert, burnout, momentum) ==
  [DetectedState |-> state, RecommendedExpert |-> expert,
   BurnoutLevel |-> burnout, MomentumPhase |-> momentum]

\* a routing that would test the hesitation before the rapid clicks
RouteHesitationFirst(sig, bLongHesitation, Num, TotalTime, ResponseTimeMs, q) ==
  IF bLongHesitation \/ sig.HesitationCount > HESITATION_COUNT_THRESHOLD
    THEN Classification("stuck", "Scaffolder", "ORANGE", "declining")
  ELSE IF sig.RapidClickCount > RAPID_CLICK_COUNT_THRESHOLD
    THEN Classification("frustrated", "Validator", "RED", "crashed")
  ELSE IF TotalTime > DEPLETED_AVG_THRESHOLD_MS * Num
    THEN Classification("depleted", "Restorer", "ORANGE", "crashed")
  ELSE IF Num > 3 /\ ResponseTimeMs * Num > TotalTime * 2
    THEN Classification("distracted", "Refocuser", "YELLOW", "declining")
  ELSE IF q.Index = q.Total - 1
    THEN Classification("completing", "Celebrator", "GREEN", "peak")
  ELSE IF Num >= 2 /\ ResponseTimeMs > 3000 /\ ResponseTimeMs < 8000
    THEN Classification("exploring", "Socratic", "GREEN", "building")
  ELSE Classification("focused", "Direct", "GREEN",
                      IF Num > 5 THEN "rolling" ELSE "building")

\* The fixed-priority routing of UpdateBehavioralSignals (lines 1275-1329).
\* Num and TotalTime are the length and the sum of ResponseTimes, the new
\* response included; AvgResponseTime = TotalTime / Num, so the comparisons
\* with the average are made on TotalTime without rounding.
Route(sig, bLongHesitation, Num, TotalTime, ResponseTimeMs, q) ==
  IF sig.RapidClickCount > RAPID_CLICK_COUNT_THRESHOLD
    THEN Classification("frustrated", "Validator", "RED", "crashed")
  ELSE IF bLongHesitation \/ sig.HesitationCount > HESITATION_COUNT_THRESHOLD
    THEN Classification("stuck", "Scaffolder", "ORANGE", "declining")
  ELSE IF TotalTime > DEPLETED_AVG_THRESHOLD_MS * Num
    THEN Classification("depleted", "Restorer", "ORANGE", "crashed")
  ELSE IF Num > 3 /\ ResponseTimeMs * Num > TotalTime * 2
    THEN Classification("distracted", "Refocuser", "YELLOW", "declining")
  ELSE IF q.Index = q.Total - 1
    THEN Classification("completing", "Celebrator", "GREEN", "peak")
  ELSE IF Num >= 2 /\ ResponseTimeMs > 3000 /\ ResponseTimeMs < 8000
    THEN Classification("exploring", "Socratic", "GREEN", "building")
  ELSE Classification("focused", "Direct", "GREEN",
                      IF Num > 5 THEN "rolling" ELSE "building")

\* an engine that would forget the hesitations at a rapid click
UpdateBehavioralSignalsForgetting(b, ResponseTimeMs) ==
  LET times == Append(b.ResponseTimes, ResponseTimeMs)
      Num == Len(times)
      TotalTime == SumSeq(times)
      bLongHesitation == ResponseTimeMs > HESITATION_THRESHOLD_MS
      bRapidClick == ResponseTimeMs < RAPID_CLICK_THRESHOLD_MS /\ Num > 1
      s1 == [b.Signals EXCEPT
               !.HesitationCount = IF bLongHesitation THEN @ + 1
                                   ELSE IF bRapidClick THEN 0 ELSE @,
               !.RapidClickCount = IF bRapidClick THEN @ + 1 ELSE @,
               !.LastResponseTimeMs = ResponseTimeMs,
               !.AverageResponseTimeMs = TotalTime \div Num,
               !.TotalResponsesRecorded = Num]
      c == Route(s1, bLongHesitation, Num, TotalTime, ResponseTimeMs, b.CurrentQuestion)
  IN [Enter(b, "UpdateBehavioralSignals") EXCEPT
        !.ResponseTimes = times,
        !.Signals = [s1 EXCEPT !.DetectedState = c.DetectedState,
                               !.RecommendedExpert = c.RecommendedExpert,
                               !.BurnoutLevel = c.BurnoutLevel,
                               !.MomentumPhase = c.MomentumPhase]]

\* UpdateBehavioralSignals (lines 1238-1352)
UpdateBehavioralSignals(b, ResponseTimeMs) ==
  LET times == Append(b.ResponseTimes, ResponseTimeMs)
      Num == Len(times)
      TotalTime == SumSeq(times)
      bLongHesitation == ResponseTimeMs > HESITATION_THRESHOLD_MS
      bRapidClick == ResponseTimeMs < RAPID_CLICK_THRESHOLD_MS /\ Num > 1
      s1 == [b.Signals EXCEPT
               !.HesitationCount = IF bLongHesitation THEN @ + 1 ELSE @,
               !.RapidClickCount = IF bRapidClick THEN @ + 1 ELSE @,
               !.LastResponseTimeMs = ResponseTimeMs,
               !.AverageResponseTimeMs = TotalTime \div Num,
               !.TotalResponsesRecorded = Num]
      c == Route(s1, bLongHesitation, Num, TotalTime, ResponseTimeMs, b.CurrentQuestion)
  IN [Enter(b, "UpdateBehavioralSignals") EXCEPT
        !.ResponseTimes = times,
        !.Signals = [s1 EXCEPT !.DetectedState = c.DetectedState,
                               !.RecommendedExpert = c.RecommendedExpert,
                               !.BurnoutLevel = c.BurnoutLevel,
                               !.MomentumPhase = c.MomentumPhase]]

\* the four classification strings of a FBehavioralSignals
ClassOf(sig) ==
  Classification(sig.DetectedState, sig.RecommendedExpert,
                 sig.BurnoutLevel, sig.MomentumPhase)

\* ------------------------------------------------------------------------
\* Writes of the bridge.  A write operation returns the bridge value
\* together with what it did to the exchange directory:
\*   usdaWritten / answerWritten   whether a save of that file succeeded
\*   slept                         the time spent in FPlatformProcess::Sleep
\*   usdaAttempts / answerAttempts the number of SaveStringToFile calls made
\*                                 on that file
\* fails is the number of save attempts that fail before one succeeds
\* (MaxRetries or more: every attempt of the loop fails).
\* ------------------------------------------------------------------------
Written(b, usdaWritten, answerWritten, slept) ==
  [b |-> b, usdaWritten |-> usdaWritten, answerWritten |-> answerWritten,
   slept |-> slept, usdaAttempts |-> 0, answerAttempts |-> 0]

\* the SaveStringToFile calls of a retry loop of which the first `fails` fail
Attempts(fails) == Min(fails + 1, MaxRetries)

\* a write that would give up silently once its retries are exhausted
WriteJsonToFileUnreported(b, fails) ==
  [Written(Enter(b, "WriteJsonToFile"), FALSE, fails < MaxRetries,
           Min(fails, MaxRetries - 1) * SleepTime)
     EXCEPT !.answerAttempts = Attempts(fails)]

\* WriteJsonToFile (lines 841-866)
WriteJsonToFile(b, fails) ==
  LET b0 == Enter(b, "WriteJsonToFile")
      w == IF fails < MaxRetries
             THEN Written(b0, FALSE, TRUE, fails * SleepTime)
             ELSE Written(Broadcast(b0, OnBridgeError("FileWriteFailure")),
                          FALSE, FALSE, (MaxRetries - 1) * SleepTime)
  IN [w EXCEPT !.answerAttempts = Attempts(fails)]

\* a JSON fallback that would enter AnswerPending only once answer.json is saved
SubmitAnswerJsonIfSaved(b, jsonFails, sleptBefore) ==
  LET w == WriteJsonToFile(b, jsonFails)
  IN [w EXCEPT !.b = IF w.answerWritten THEN SetState(w.b, "AnswerPending") ELSE w.b,
               !.slept = @ + sleptBefore]

\* SubmitAnswer, lines 639-655: the JSON fallback
SubmitAnswerJson(b, jsonFails, sleptBefore) ==
  LET w == WriteJsonToFile(b, jsonFails)
  IN [w EXCEPT !.b = SetState(w.b, "AnswerPending"), !.slept = @ + sleptBefore]

\* SubmitAnswer (lines 597-656)
SubmitAnswer(b, env, ResponseTimeMs, usdaFails, jsonFails) ==
  LET b0 == Enter(b, "SubmitAnswer")
  IN IF b0.bUsingUsdMode /\ env.usdaReadable
       THEN LET b1 == UpdateBehavioralSignals(b0, ResponseTimeMs)
                w == IF usdaFails < MaxRetries
                       THEN Written(SetState(b1, "AnswerPending"), TRUE, FALSE,
                                    usdaFails * SleepTime)
                       ELSE SubmitAnswerJson(b1, jsonFails, MaxRetries * SleepTime)
            IN [w EXCEPT !.usdaAttempts = Attempts(usdaFails)]
       ELSE SubmitAnswerJson(b0, jsonFails, 0)

\* SendAcknowledge (lines 659-697): one save attempt of the text format
SendAcknowledge(b, env, usdaFails, jsonFails) ==
  LET b0 == Enter(b, "SendAcknowledge")
  IN IF ~env.usdaReadable THEN WriteJsonToFile(b0, jsonFails)
     ELSE LET w == IF usdaFails = 0
                     THEN Written([b0 EXCEPT !.bUsingUsdMode = TRUE], TRUE, FALSE, 0)
                     ELSE WriteJsonToFile(b0, jsonFails)
          IN [w EXCEPT !.usdaAttempts = 1]

\* ------------------------------------------------------------------------
\* Files of the exchange directory that the bridge reads: the two state
\* files (a document and a modification time) and the two profile files (a
\* modification time).  answer.json is written for the orchestrator and
\* never read by the bridge: a write of it shows in the operation's record.
\* ------------------------------------------------------------------------
StateFile(exists, doc, mtime) == [exists |-> exists, doc |-> doc, mtime |-> mtime]
NoStateFile == StateFile(FALSE, EmptyDoc, 0)
WatchedFile(exists, mtime) == [exists |-> exists, mtime |-> mtime]

\* ------------------------------------------------------------------------
\* Observation of a run: what the last operation did (last), and what has
\* happened over earlier operations (audit).  Neither is read by the bridge.
\* ------------------------------------------------------------------------
NoPsf ==
  [ran |-> FALSE, usdaExisted |-> FALSE, failed |-> FALSE, jsonMalformed |-> FALSE,
   lacking |-> FALSE, unchanged |-> TRUE, events |-> <<>>, calls |-> {}]

\* the state handlers of each format
JsonHandlers ==
  {"HandleReadyState", "HandleQuestionState", "HandleTransitionState",
   "HandleFinaleState"}
UsdaHandlers ==
  {"HandleUsdaReadyState", "HandleUsdaQuestionState", "HandleUsdaTransitionState",
   "HandleUsdaFinaleState"}

\* a document whose handler finds one of the attributes it reads missing:
\* total_questions of a ready message, the question id of a question
\* message, usd_path of a finale message
Lacks(doc) ==
  \/ doc.message_type = "ready" /\ doc.total_questions = 0
  \/ doc.message_type = "question" /\ doc.question_id = ""
  \/ doc.message_type = "finale" /\ doc.usd_path = ""

\* the record of one ProcessStateFile call: pre is the bridge on entry, post
\* on return.  failed: the file the call had to read could not be loaded or
\* parsed; lacking: a handler ran on a document that Lacks an attribute;
\* unchanged: CurrentState and CurrentQuestion are as on entry.
PsfLog(pre, post, env) ==
  [ran |-> TRUE, usdaExisted |-> env.usda.exists,
   lacking |-> \/ post.calls \cap UsdaHandlers # {} /\ Lacks(env.usda.doc)
               \/ post.calls \cap JsonHandlers # {} /\ Lacks(env.json.doc),
   failed |-> \/ env.usda.exists /\ ~env.usdaReadable
              \/ ~env.usda.exists /\ env.json.exists
                   /\ (~env.jsonReadable \/ env.json.doc = Garbage),
   jsonMalformed |-> ~env.usda.exists /\ env.jsonReadable /\ env.json.doc = Garbage,
   unchanged |-> /\ post.CurrentState = pre.CurrentState
                 /\ post.CurrentQuestion = pre.CurrentQuestion,
   events |-> post.events, calls |-> post.calls]

\* last: the operation just performed, the events it broadcast, the
\* record of the ProcessStateFile call it made, if any; wrote is the file a
\* SubmitAnswer or SendAcknowledge saved ("usda", "json" or "none")
Op(name, events, psf) == [op |-> name, events |-> events, psf |-> psf, wrote |-> "none"]
Quiet == Op("none", <<>>, NoPsf)
WriteOp(name, w) ==
  [Op(name, w.b.events, NoPsf) EXCEPT
     !.wrote = IF w.usdaWritten THEN "usda" ELSE IF w.answerWritten THEN "json" ELSE "none"]

\* What an operation did to the change detection.  For a Tick: dt is its
\* DeltaTime, polled whether the poll branch ran, detected / usdDetected
\* whether the poll saw a newer state / profile file, fired / usdFired
\* whether the debounce ran ProcessStateFile / the profile broadcast, pending
\* whether a state change is still pending on return.  notified /
\* usdNotified: a NotifyFileChanged call; modified: a write to (or removal
\* of) a state file; stopped: a StopGame call.  mtime: the modification time
\* of the state file whose message the operation handed to a handler.
NoObs ==
  [dt |-> 0, polled |-> FALSE, detected |-> FALSE, usdDetected |-> FALSE,
   fired |-> FALSE, usdFired |-> FALSE, pending |-> FALSE,
   notified |-> FALSE, usdNotified |-> FALSE, modified |-> FALSE,
   stopped |-> FALSE, mtime |-> 0]

\* audit: the history of the change detection.
\*   sinceStateChange   time elapsed since the last state-file change event
\*                      (a poll detection or a NotifyFileChanged(state)),
\*                      counted up to DebounceTime
\*   firedSinceChange   the debounce has run ProcessStateFile since that event
\*   stateChangeAfterStop / usdChangeAfterStop
\*                      a change event arrived after the last StopGame call
\*   origin             what raised the change that is pending or was last fired
\*   retryOwed          the last ProcessStateFile run by the debounce for a
\*                      poll-detected change failed to read or parse, and no
\*                      state file was modified and the bridge not stopped since
\* and, of the last operation only:
\*   detected, fired, usdFired
\*                      as in the operation's observation
\*   gap, firedBetween  if it was a change event: sinceStateChange and
\*                      firedSinceChange as they were when it arrived
\*   sinceChangeAtFire  if the debounce fired: sinceStateChange at that time
\*   retryMissed        it polled while retryOwed and neither ran nor
\*                      scheduled ProcessStateFile
\*   redispatched       it handed to a handler a modification of the state
\*                      file (a modification time) that was dispatched before
\* and dispatched, the modification times of the state files whose message
\* was handed to a handler so far
InitAudit ==
  [sinceStateChange |-> DebounceTime, firedSinceChange |-> FALSE,
   stateChangeAfterStop |-> FALSE, usdChangeAfterStop |-> FALSE,
   origin |-> "none", retryOwed |-> FALSE,
   detected |-> FALSE, fired |-> FALSE, usdFired |-> FALSE,
   gap |-> DebounceTime, firedBetween |-> FALSE,
   sinceChangeAtFire |-> DebounceTime, retryMissed |-> FALSE,
   dispatched |-> {}, redispatched |-> FALSE]

\* the audit after an operation: o is what it did to the change detection,
\* l the operation's record
AuditAfter(a, o, l) ==
  LET change == o.detected \/ o.notified
      elapsed == Min(DebounceTime, a.sinceStateChange + o.dt)
      since == IF change THEN 0 ELSE elapsed
      origin == IF o.detected THEN "poll" ELSE IF o.notified THEN "notify" ELSE a.origin
      handled == l.psf.ran /\ l.psf.calls \cap (UsdaHandlers \cup JsonHandlers) # {}
  IN [sinceStateChange |-> since,
      firedSinceChange |-> o.fired \/ (~change /\ a.firedSinceChange),
      stateChangeAfterStop |-> ~o.stopped /\ (change \/ a.stateChangeAfterStop),
      usdChangeAfterStop |->
        ~o.stopped /\ (o.usdDetected \/ o.usdNotified \/ a.usdChangeAfterStop),
      origin |-> origin,
      retryOwed |-> IF l.psf.ran THEN o.fired /\ origin = "poll" /\ l.psf.failed
                    ELSE IF o.modified \/ o.stopped THEN FALSE ELSE a.retryOwed,
      detected |-> o.detected, fired |-> o.fired, usdFired |-> o.usdFired,
      gap |-> IF change THEN elapsed ELSE DebounceTime,
      firedBetween |-> change /\ a.firedSinceChange,
      sinceChangeAtFire |-> IF o.fired THEN since ELSE DebounceTime,
      retryMissed |-> a.retryOwed /\ o.polled /\ ~o.fired /\ ~o.pending,
      dispatched |-> IF handled THEN a.dispatched \cup {o.mtime} ELSE a.dispatched,
      redispatched |-> handled /\ o.mtime \in a.dispatched]

\* writes: the record of the last SubmitAnswer or SendAcknowledge call, kept
\* by the specifications that examine the writes.
\*   usdaAttempts / answerAttempts   SaveStringToFile calls on each file
\*   ResponseTimeMs                  the response time submitted
\*   recordedBefore                  Signals.TotalResponsesRecorded on entry
\*   usdBefore                       bUsingUsdMode on entry
\*   failed                          no save of the call succeeded
\*   afterFailure                    an earlier SubmitAnswer call failed
\*   OptionIndex                     the option submitted, where it is recorded
NoWrites ==
  [op |-> "none", usdaAttempts |-> 0, answerAttempts |-> 0, ResponseTimeMs |-> 0,
   recordedBefore |-> 0, usdBefore |-> FALSE, failed |-> FALSE,
   afterFailure |-> FALSE, OptionIndex |-> 0]

WriteLog(name, w, ResponseTimeMs) ==
  [op |-> name, usdaAttempts |-> w.usdaAttempts, answerAttempts |-> w.answerAttempts,
   ResponseTimeMs |-> ResponseTimeMs,
   recordedBefore |-> Signals.TotalResponsesRecorded,
   usdBefore |-> bUsingUsdMode,
   failed |-> ~w.usdaWritten /\ ~w.answerWritten,
   afterFailure |-> \/ writes.afterFailure
                    \/ writes.op = "SubmitAnswer" /\ writes.failed,
   OptionIndex |-> 0]

\* the documents the codec is applied to: the prims and attributes that
\* SubmitAnswer (614-619), SendAcknowledge (670-673) and the question
\* handler (1079-1083) name, with the Message prim before or after the
\* Answer prim
MessagePrim ==
  Prim("Message", <<Attr("string", "question_id", <<"q", Quote>>),
                    Attr("int", "index", <<"1">>)>>)
AnswerPrim ==
  Prim("Answer", <<Attr("string", "question_id", <<Quote>>),
                   Attr("int", "option_index", <<"0">>),
                   Attr("string", "timestamp", <<Quote>>)>>)
AckPrim ==
  Prim("Ack", <<Attr("bool", "ready", <<"f", "a", "l", "s", "e">>),
                Attr("string", "timestamp", <<Quote>>)>>)
\* a Message prim with a child prim Options declared before its index
NestedPrim ==
  Prim("Message", <<Attr("string", "question_id", <<"q", Quote>>),
                    Attr("def", "Options", <<>>),
                    Attr("string", "label", <<"A", Quote>>),
                    Attr("}", "", <<>>),
                    Attr("int", "index", <<"1">>)>>)
StageDocs ==
  {<<MessagePrim, AnswerPrim, AckPrim>>, <<AnswerPrim, AckPrim, MessagePrim>>,
   <<NestedPrim, AnswerPrim, AckPrim>>}
\* the prims and the attributes that are read back
ReadPrims == {"Message", "Options", "Answer", "Ack", "Missing"}
ReadNames == {"question_id", "label", "index", "option_index", "timestamp"}
StagePrims == {"Answer", "Ack"}
StageStrings == {"question_id", "timestamp"}
StageNumbers == {"option_index", "ready"}
StringValues == {<<"a">>, <<"a", Quote>>, <<Backslash>>}
NumberValues == {<<"7">>, <<"t", "r", "u", "e">>}

\* stage: the USDA document under edit of the attribute codec, the document
\* before the last edit and the arguments of that edit
NoStage ==
  [doc |-> <<>>, before |-> <<>>, op |-> "none", edits |-> 0,
   PrimName |-> "", AttrName |-> "", NewValue |-> <<>>, bIsString |-> FALSE]

\* FString::FromInt: the decimal digits of an integer
RECURSIVE FromInt(_)
FromInt(n) ==
  LET digit(d) == <<"0", "1", "2", "3", "4", "5", "6", "7", "8", "9">>[d + 1]
  IN IF n < 0 THEN <<"-">> \o FromInt(0 - n)
     ELSE IF n < 10 THEN <<digit(n)>>
     ELSE Append(FromInt(n \div 10), digit(n % 10))

\* FString::SanitizeFloat of a whole number of milliseconds: "3500.0"
SanitizeFloat(ms) == FromInt(ms) \o <<".", "0">>

\* The text of bridge_state.usda that carries the state document doc: the
\* payload prims of the messages, and the Answer and BehavioralSignals
\* prims that SubmitAnswer fills in.  A string value is kept as one piece
\* of text followed by the closing quote.
BridgeDoc(doc) ==
  <<Prim("Ready", <<Attr("int", "total_questions", FromInt(doc.total_questions))>>),
    Prim("Message", <<Attr("int", "index", FromInt(doc.index)),
                      Attr("int", "total", FromInt(doc.total)),
                      Attr("string", "question_id", <<doc.question_id, Quote>>)>>),
    Prim("Answer", <<Attr("string", "question_id", <<Quote>>),
                     Attr("int", "option_index", <<"-", "1">>),
                     Attr("float", "response_time_ms", <<"0", ".", "0">>),
                     Attr("string", "selected_label", <<Quote>>),
                     Attr("string", "selected_direction", <<Quote>>),
                     Attr("string", "timestamp", <<Quote>>)>>),
    Prim("BehavioralSignals",
         <<Attr("float", "last_response_time_ms", <<"0", ".", "0">>),
           Attr("float", "average_response_time_ms", <<"0", ".", "0">>),
           Attr("int", "hesitation_count", <<"0">>),
           Attr("bool", "long_hesitation_detected", <<"false">>),
           Attr("int", "rapid_click_count", <<"0">>),
           Attr("string", "detected_state", <<Quote>>),
           Attr("string", "recommended_expert", <<Quote>>),
           Attr("string", "burnout_level", <<Quote>>),
           Attr("string", "momentum_phase", <<Quote>>)>>)>>

\* an answer that would be written with the option and the time exchanged
SubmitContentSwapped(Content, b, after, QuestionId, OptionIndex, ResponseTimeMs) ==
  UpdateUsdaAttribute(
    UpdateUsdaAttribute(Content, "Answer", "option_index", FromInt(ResponseTimeMs), FALSE),
    "Answer", "response_time_ms", SanitizeFloat(OptionIndex), FALSE)

\* SubmitAnswer, lines 605-621, and UpdateBehavioralSignals, lines 1337-1345:
\* the attribute writes made on the loaded text before it is saved.  b is
\* the bridge on entry of SubmitAnswer, after is the bridge once
\* UpdateBehavioralSignals has run.
SubmitContent(Content, b, after, QuestionId, OptionIndex, ResponseTimeMs) ==
  LET Labels == b.CurrentQuestion.OptionLabels
      SelectedLabel == IF OptionIndex >= 0 /\ OptionIndex < Len(Labels)
                         THEN <<Labels[OptionIndex + 1]>> ELSE <<>>
      sig == after.Signals
      bLongHesitation == ResponseTimeMs > HESITATION_THRESHOLD_MS
      c1 == UpdateUsdaAttribute(Content, "Answer", "question_id", <<QuestionId>>, TRUE)
      c2 == UpdateUsdaAttribute(c1, "Answer", "option_index", FromInt(OptionIndex), FALSE)
      c3 == UpdateUsdaAttribute(c2, "Answer", "response_time_ms",
                                SanitizeFloat(ResponseTimeMs), FALSE)
      c4 == UpdateUsdaAttribute(c3, "Answer", "selected_label", SelectedLabel, TRUE)
      c5 == UpdateUsdaAttribute(c4, "Answer", "selected_direction", <<>>, TRUE)
      c6 == UpdateUsdaAttribute(c5, "Answer", "timestamp", <<"now">>, TRUE)
      s1 == UpdateUsdaAttribute(c6, "BehavioralSignals", "last_response_time_ms",
                                SanitizeFloat(ResponseTimeMs), FALSE)
      s2 == UpdateUsdaAttribute(s1, "BehavioralSignals", "average_response_time_ms",
                                SanitizeFloat(sig.AverageResponseTimeMs), FALSE)
      s3 == UpdateUsdaAttribute(s2, "BehavioralSignals", "hesitation_count",
                                FromInt(sig.HesitationCount), FALSE)
      s4 == UpdateUsdaAttribute(s3, "BehavioralSignals", "long_hesitation_detected",
                                IF bLongHesitation THEN <<"true">> ELSE <<"false">>, FALSE)
      s5 == UpdateUsdaAttribute(s4, "BehavioralSignals", "rapid_click_count",
                                FromInt(sig.RapidClickCount), FALSE)
      s6 == UpdateUsdaAttribute(s5, "BehavioralSignals", "detected_state",
                                <<sig.DetectedState>>, TRUE)
      s7 == UpdateUsdaAttribute(s6, "BehavioralSignals", "recommended_expert",
                                <<sig.RecommendedExpert>>, TRUE)
      s8 == UpdateUsdaAttribute(s7, "BehavioralSignals", "burnout_level",
                                <<sig.BurnoutLevel>>, TRUE)
  IN UpdateUsdaAttribute(s8, "BehavioralSignals", "momentum_phase",
                         <<sig.MomentumPhase>>, TRUE)

\* ------------------------------------------------------------------------
\* The cognitive profile.  The exported document is kept as what the
\* orchestrator put in it: the strings checksum, anchor and
\* translators_anchor ("" when absent), the Profile block as a sequence of
\* <<dimension, score>> and the Traits block as a sequence of
\* <<key, label>>; scores are in hundredths.  ProfileContent is its text.
\* ------------------------------------------------------------------------
ProfileDoc(checksum, anchor, translators_anchor, Profile, Traits) ==
  [checksum |-> checksum, anchor |-> anchor, translators_anchor |-> translators_anchor,
   Profile |-> Profile, Traits |-> Traits]

\* the text of a profile document: the strings read by the patterns of
\* lines 1391-1411, the blocks found at lines 1424 and 1455; a score is
\* written as a decimal number, 72 as 0.72 and 70 as 0.7
ProfileContent(doc) ==
  LET Decimal(n) == FromInt(n \div 100) \o <<".">> \o
                    (IF n % 10 = 0 THEN FromInt((n % 100) \div 10)
                     ELSE FromInt((n % 100) \div 10) \o FromInt(n % 10))
      Str(name, v) == IF v = "" THEN <<>> ELSE <<Attr("string", name, <<v, Quote>>)>>
  IN << Prim("customData", Str("checksum", doc.checksum) \o Str("anchor", doc.anchor)
                           \o Str("translators_anchor", doc.translators_anchor)),
        Prim("Profile", [i \in DOMAIN doc.Profile |->
                           Attr("float", doc.Profile[i][1], Decimal(doc.Profile[i][2]))]),
        Prim("Traits", [i \in DOMAIN doc.Traits |->
                          Attr("string", doc.Traits[i][1], <<doc.Traits[i][2], Quote>>)]) >>

\* an Atof that would stop at the first digit after the point
AtofTenths(number) ==
  LET whole == Span(number, Digits)
      tenth == SubSeq(number, Len(whole) + 2, Len(whole) + 2)
      Digit(c) == CHOOSE d \in 0..9 : FromInt(d) = <<c>>
  IN (IF whole = <<>> THEN 0 ELSE 100 * Digit(whole[Len(whole)]))
     + (IF tenth = <<>> THEN 0 ELSE 10 * Digit(tenth[1]))

\* FCString::Atof (line 1445) of a captured [\d.]+, in hundredths: the
\* digits before the first point and the first two digits after it
Atof(number) ==
  LET RECURSIVE Value(_)
      Value(ds) == IF ds = <<>> THEN 0
                   ELSE 10 * Value(SubSeq(ds, 1, Len(ds) - 1))
                        + (CHOOSE d \in 0..9 : FromInt(d) = <<ds[Len(ds)]>>)
      whole == Span(number, Digits)
      after == SubSeq(number, Len(whole) + 2, Len(number))
      frac == IF Len(whole) < Len(number) THEN Span(after, Digits) ELSE <<>>
      two == SubSeq(frac \o <<"0", "0">>, 1, 2)
  IN 100 * Value(whole) + Value(two)

\* a default-constructed FUEBridgeProfile
EmptyProfile ==
  [UsdExportPath |-> "", GeneratorVersion |-> "", Checksum |-> <<>>, Anchor |-> <<>>,
   Dimensions |-> <<>>, Traits |-> <<>>, Insights |-> <<>>]

\* a parse that would give the anchor of a running questionnaire only
FUEBridgeProfileOfSession(b, UsdPath, Content) ==
  LET checksum == FirstCapture(AllLines(Content), {"string"}, "checksum")
  IN [EmptyProfile EXCEPT
        !.UsdExportPath = UsdPath,
        !.Checksum = IF checksum = Unmatched THEN <<>> ELSE checksum,
        !.Anchor = IF b.CurrentState = "Idle" \/ checksum = Unmatched THEN <<>> ELSE checksum]

\* the Profile that ParseCognitiveProfile builds from the loaded Content
\* (lines 1385-1545); b is the subsystem the function is called on.  A
\* TMap is the sequence of its <<key, value>> in insertion order, Add of
\* a key already present replacing its value in place.
FUEBridgeProfile(b, UsdPath, Content) ==
  LET RECURSIVE Added(_)
      Added(pairs) ==
        IF pairs = <<>> THEN <<>>
        ELSE LET m == Added(SubSeq(pairs, 1, Len(pairs) - 1))
                 p == pairs[Len(pairs)]
                 at == {i \in DOMAIN m : m[i][1] = p[1]}
             IN IF at = {} THEN Append(m, p)
                ELSE [i \in DOMAIN m |-> IF i \in at THEN p ELSE m[i]]
      Find(m, key) == {i \in DOMAIN m : m[i][1] = key}
      QuestionToDimension ==
        [load |-> "cognitive_density", pace |-> "processing_pace",
         uncertainty |-> "uncertainty_tolerance", feedback |-> "feedback_style",
         recovery |-> "home_altitude", starting |-> "guidance_frequency",
         completion |-> "default_paradigm", essence |-> "tangent_tolerance"]
      First(name) == FirstCapture(AllLines(Content), {"string"}, name)
      Block(name) == LET prims == {i \in DOMAIN Content : Content[i].name = name}
                     IN IF prims = {} THEN <<>>
                        ELSE Content[CHOOSE i \in prims : \A other \in prims : i <= other].attrs
      floats == SelectSeq(Block("Profile"),
                          LAMBDA l : l.type = "float" /\ FloatCapture(l.rest) # Unmatched)
      DimensionScores == Added([i \in DOMAIN floats |->
                                  <<floats[i].name, Atof(FloatCapture(floats[i].rest))>>])
      strings == SelectSeq(Block("Traits"),
                           LAMBDA l : l.type = "string" /\ StringCapture(l.rest) # Unmatched)
      TraitLabels == Added([i \in DOMAIN strings |->
                              <<strings[i].name, StringCapture(strings[i].rest)>>])
      Score(DimName) == LET at == Find(DimensionScores, DimName)
                        IN IF at = {} THEN 50 ELSE DimensionScores[CHOOSE i \in at : TRUE][2]
      Trait(Pair) ==
        LET mapped == Pair[1] \in DOMAIN QuestionToDimension
            Dimension == IF mapped THEN QuestionToDimension[Pair[1]] ELSE Pair[1]
            s == IF mapped THEN Score(Dimension) ELSE 50
        IN [Label |-> Pair[2], Dimension |-> Dimension, Score |-> s,
            Behavior |-> IF s >= 70 THEN <<"Strong">> \o Pair[2] \o <<"tendency">>
                         ELSE IF s <= 30 THEN <<"Measured">> \o Pair[2] \o <<"approach">>
                         ELSE <<"Balanced">> \o Pair[2] \o <<"style">>]
      Traits == [i \in DOMAIN TraitLabels |-> Trait(TraitLabels[i])]
      marked == SelectSeq(Traits, LAMBDA tr : tr.Score >= 70 \/ tr.Score <= 30)
  IN [UsdExportPath |-> UsdPath,
      GeneratorVersion |-> "2.1.0",
      Checksum |-> IF First("checksum") = Unmatched THEN <<>> ELSE First("checksum"),
      Anchor |-> IF First("translators_anchor") # Unmatched THEN First("translators_anchor")
                 ELSE IF First("anchor") # Unmatched THEN First("anchor")
                 ELSE <<>>,
      Dimensions |-> DimensionScores,
      Traits |-> Traits,
      Insights |-> [i \in DOMAIN marked |->
                      <<IF marked[i].Score >= 70 THEN "High" ELSE "Low",
                        marked[i].Dimension>> \o marked[i].Label]]

\* ------------------------------------------------------------------------
\* The pixel bus (PixelBus.h, PixelBus.cpp): NUM_SLOTS frame slots, written
\* by the render thread and read by the thread of the HTTP handler.  Neither
\* function takes a lock the other takes, so the statements of a WriteFrame
\* and of a read interleave; w and r are the two calls in progress with
\* their locals (pc: the statement to execute next).  The frame written by
\* the k-th WriteFrame has pixels, size, frame number and timestamp k.
\* ------------------------------------------------------------------------
NUM_SLOTS == 3

FFrameSlot == [Pixels |-> 0, Size |-> 0, FrameNumber |-> 0, Timestamp |-> 0,
               bReady |-> FALSE]

FPixelBus ==
  [Slots |-> [i \in 0 .. (NUM_SLOTS - 1) |-> FFrameSlot],
   WriteIndex |-> 0, LatestFrame |-> 0,
   w |-> [pc |-> "return", SlotIndex |-> 0, FrameNumber |-> 0],
   r |-> [pc |-> "return", fn |-> "none", i |-> 0, BestFrame |-> 0, BestSlot |-> -1,
          Out |-> FFrameSlot, ret |-> FALSE]]

\* ------------------------------------------------------------------------
\* The HUD (UEBridgeHUD.cpp, UEBridgeHUD.h) with its question widget
\* (W_QuestionDisplay.cpp).  Times are in tenths of a second.
\*   SelectedOptionIndex   the selection of the question widget
\*   SinceQuestion         GetTimeSeconds() - QuestionStartTime, counted up
\*                         to InputGuard
\*   sent                  the SendAnswer calls made since the last
\*                         question-received event
\* ------------------------------------------------------------------------
ANSWER_HOLD_TIME == 7
FADE_DURATION == 3
\* UpdateTransition, line 588: the wait for the next question gives up
WaitTimeout == 100
\* HandleKeyInput, line 666: no key is accepted so soon after a question
InputGuard == 5

AUEBridgeHUD ==
  [CurrentHUDState |-> "Connecting", TransitionState |-> "None", TransitionTimer |-> 0,
   PendingAnswerIndex |-> -1, SelectedOptionIndex |-> -1, SinceQuestion |-> 0,
   sent |-> 0]

\* AUEBridgeHUD::OnAnswerSelected (lines 686-698)
OnAnswerSelected(h, OptionIndex) ==
  IF h.TransitionState # "None" THEN h
  ELSE [h EXCEPT !.PendingAnswerIndex = OptionIndex, !.TransitionState = "AnswerHold",
                 !.TransitionTimer = 0]

\* UpdateTransition (lines 535-623); the timer is counted up to WaitTimeout + 1
UpdateTransition(h, DeltaSeconds) ==
  IF h.TransitionState = "None" THEN h
  ELSE LET timer == Min(h.TransitionTimer + DeltaSeconds, WaitTimeout + 1)
           h1 == [h EXCEPT !.TransitionTimer = timer]
       IN CASE h.TransitionState = "AnswerHold" ->
                 IF timer >= ANSWER_HOLD_TIME
                   THEN [h1 EXCEPT !.sent = IF h.PendingAnswerIndex >= 0
                                              THEN Min(h.sent + 1, MaxSent) ELSE h.sent,
                                   !.PendingAnswerIndex = -1,
                                   !.TransitionState = "FadeOut", !.TransitionTimer = 0]
                   ELSE h1
            [] h.TransitionState = "FadeOut" ->
                 IF timer >= FADE_DURATION
                   THEN [h1 EXCEPT !.TransitionState = "WaitForNext", !.TransitionTimer = 0]
                   ELSE h1
            [] h.TransitionState = "WaitForNext" ->
                 IF timer > WaitTimeout THEN [h1 EXCEPT !.TransitionState = "None"] ELSE h1
            [] OTHER ->
                 IF timer >= FADE_DURATION
                   THEN [h1 EXCEPT !.TransitionState = "None", !.SinceQuestion = 0]
                   ELSE h1

\* HandleKeyInput (lines 626-683); key is the number key pressed in the
\* frame as an option index, -1 for none
HandleKeyInput(h, key) ==
  IF h.CurrentHUDState # "Questions" THEN h
  ELSE IF h.TransitionState # "None" THEN h
  ELSE IF h.SelectedOptionIndex # -1 THEN h
  ELSE IF h.SinceQuestion < InputGuard THEN h
  ELSE IF key >= 0 THEN OnAnswerSelected(h, key)
  ELSE h

\* call: the SubmitAnswer or SendAcknowledge call that has loaded
\* bridge_state.usda and has not saved it yet, with the text it loaded
NoCall == [op |-> "none", Content |-> EmptyDoc, ResponseTimeMs |-> 0]

Init ==
  /\ CurrentState = "Idle"
  /\ CurrentQuestion = EmptyQuestion
  /\ Signals = EmptySignals
  /\ ResponseTimes = <<>>
  /\ bIsActive = FALSE
  /\ bUsingUsdMode = FALSE
  /\ TimeSinceLastStateChange = 0
  /\ bStateChangePending = FALSE
  /\ TimeSinceLastUsdChange = 0
  /\ bUsdChangePending = FALSE
  /\ PollTimer = 0
  /\ LastStateFileTime = 0
  /\ LastUsdFileTime = 0
  /\ usdaFile = NoStateFile
  /\ jsonFile = NoStateFile
  /\ profileFile = WatchedFile(FALSE, 0)
  /\ substrateFile = WatchedFile(FALSE, 0)
  /\ clock = 0
  /\ last = Quiet
  /\ audit = InitAudit
  /\ peer = Bridge("Idle", EmptyQuestion, EmptySignals, <<>>, FALSE)
  /\ writes = NoWrites
  /\ stage = NoStage
  /\ profileDoc = ProfileDoc("", "", "", <<>>, <<>>)
  /\ parsed = [ret |-> EmptyProfile, read |-> FALSE, log |-> {}]
  /\ call = NoCall
  /\ bus = FPixelBus
  /\ hud = AUEBridgeHUD

\* the bridge fields take the values of the bridge value b
Becomes(b) ==
  /\ CurrentState' = b.CurrentState
  /\ CurrentQuestion' = b.CurrentQuestion
  /\ Signals' = b.Signals
  /\ ResponseTimes' = b.ResponseTimes
  /\ bUsingUsdMode' = b.bUsingUsdMode

\* ------------------------------------------------------------------------
\* Operations of the bridge
\* ------------------------------------------------------------------------
\* a StartGame that would leave an existing state file to the next poll
StartGameDeferred ==
  IF bIsActive
    THEN /\ last' = Op("StartGame", <<>>, NoPsf)
         /\ UNCHANGED <<bridgeVars, timerVars, fileVars>>
    ELSE /\ bIsActive' = TRUE
         /\ Becomes(SetState(Self, "WaitingForBridge"))
         /\ last' = Op("StartGame", <<>>, NoPsf)
         /\ UNCHANGED <<timerVars, fileVars>>

\* StartGame (lines 540-579)
StartGame ==
  \E ur \in Loads(~bIsActive /\ usdaFile.exists),
     jr \in Loads(~bIsActive /\ jsonFile.exists) :
    LET env == Env(ur, jr)
        b0 == SetState(Self, "WaitingForBridge")
        process == usdaFile.exists \/ jsonFile.exists
        b1 == IF process THEN ProcessStateFile(b0, env) ELSE b0
    IN IF bIsActive
         THEN /\ last' = Op("StartGame", <<>>, NoPsf)
              /\ UNCHANGED <<bridgeVars, timerVars, fileVars>>
         ELSE /\ bIsActive' = TRUE
              /\ Becomes(b1)
              /\ last' = Op("StartGame", b1.events,
                            IF process THEN PsfLog(b0, b1, env) ELSE NoPsf)
              /\ UNCHANGED <<timerVars, fileVars>>

\* IsBridgeConnected (UEBridgeRuntime.h, line 94)
IsBridgeConnected == CurrentState # "Idle" /\ CurrentState # "Error"

\* StopGame (lines 581-594)
StopGame ==
  /\ last' = Op("StopGame", <<>>, NoPsf)
  /\ IF ~bIsActive
       THEN UNCHANGED <<bridgeVars, timerVars>>
       ELSE /\ bIsActive' = FALSE
            /\ bStateChangePending' = FALSE
            /\ bUsdChangePending' = FALSE
            /\ CurrentState' = "Idle"
            /\ UNCHANGED <<CurrentQuestion, Signals, ResponseTimes, bUsingUsdMode,
                           TimeSinceLastStateChange, TimeSinceLastUsdChange,
                           PollTimer, LastStateFileTime, LastUsdFileTime>>
  /\ UNCHANGED <<fileVars>>

\* NotifyFileChanged (lines 708-720)
NotifyFileChanged(bIsUsdProfile) ==
  /\ IF bIsUsdProfile
       THEN /\ bUsdChangePending' = TRUE
            /\ TimeSinceLastUsdChange' = 0
            /\ last' = Op("NotifyFileChanged", <<>>, NoPsf)
            /\ UNCHANGED <<bStateChangePending, TimeSinceLastStateChange>>
       ELSE /\ bStateChangePending' = TRUE
            /\ TimeSinceLastStateChange' = 0
            /\ last' = Op("NotifyFileChanged", <<>>, NoPsf)
            /\ UNCHANGED <<bUsdChangePending, TimeSinceLastUsdChange>>
  /\ UNCHANGED <<bridgeVars, PollTimer, LastStateFileTime, LastUsdFileTime, fileVars>>

\* Tick, lines 449-534: the poll and the two debounce timers of one call,
\* which depend on the files' timestamps only
Frame(DeltaTime) ==
  LET polled == PollTimer + DeltaTime >= PollInterval
      \* lines 456-482: bridge_state.usda if it exists, else state.json
      watched == IF usdaFile.exists THEN usdaFile ELSE jsonFile
      detected == polled /\ watched.exists /\ watched.mtime > LastStateFileTime
      \* lines 484-499: the two profile files share LastUsdFileTime
      t1 == IF polled /\ profileFile.exists /\ profileFile.mtime > LastUsdFileTime
              THEN profileFile.mtime ELSE LastUsdFileTime
      t2 == IF polled /\ substrateFile.exists /\ substrateFile.mtime > t1
              THEN substrateFile.mtime ELSE t1
      usdDetected == t2 # LastUsdFileTime
      \* lines 502-511
      pending == bStateChangePending \/ detected
      since == (IF detected THEN 0 ELSE TimeSinceLastStateChange)
                 + (IF pending THEN DeltaTime ELSE 0)
      fired == pending /\ since >= DebounceTime
      \* lines 513-534
      usdPending == bUsdChangePending \/ usdDetected
      usdSince == (IF usdDetected THEN 0 ELSE TimeSinceLastUsdChange)
                    + (IF usdPending THEN DeltaTime ELSE 0)
      usdFired == usdPending /\ usdSince >= DebounceTime
  IN [polled |-> polled, detected |-> detected,
      stateTime |-> IF detected THEN watched.mtime ELSE LastStateFileTime,
      usdDetected |-> usdDetected, usdTime |-> t2,
      since |-> since, fired |-> fired, pending |-> pending /\ ~fired,
      usdSince |-> usdSince, usdFired |-> usdFired,
      usdPending |-> usdPending /\ ~usdFired]

\* Tick (lines 446-535), called by the engine only while IsTickable()
Tick(DeltaTime) ==
  /\ bIsActive
  /\ LET f == Frame(DeltaTime)
     IN \E ur \in Loads(f.fired /\ usdaFile.exists), jr \in Loads(f.fired) :
       LET env == Env(ur, jr)
           b1 == IF f.fired THEN ProcessStateFile(Self, env) ELSE Self
           b2 == IF ~f.usdFired THEN b1
                 ELSE IF profileFile.exists
                   THEN Broadcast(b1, OnUsdProfileUpdated(ProfileName))
                 ELSE IF substrateFile.exists
                   THEN Broadcast(b1, OnUsdProfileUpdated(SubstrateName))
                 ELSE b1
       IN /\ PollTimer' = IF f.polled THEN 0 ELSE PollTimer + DeltaTime
          /\ LastStateFileTime' = f.stateTime
          /\ LastUsdFileTime' = f.usdTime
          /\ bStateChangePending' = f.pending
          /\ TimeSinceLastStateChange' = f.since
          /\ bUsdChangePending' = f.usdPending
          /\ TimeSinceLastUsdChange' = f.usdSince
          /\ Becomes(b2)
          /\ last' = Op("Tick", b2.events,
                        IF f.fired THEN PsfLog(Self, b1, env) ELSE NoPsf)
          /\ UNCHANGED <<bIsActive, fileVars>>

\* what Tick(DeltaTime) does to the change detection
TickObs(DeltaTime) ==
  LET f == Frame(DeltaTime)
  IN [NoObs EXCEPT !.dt = DeltaTime, !.polled = f.polled,
                   !.detected = f.detected, !.usdDetected = f.usdDetected,
                   !.fired = f.fired, !.usdFired = f.usdFired,
                   !.pending = f.pending]

\* the failing save attempts a call may meet: none, one, or every one of them
SaveFailures == {0, 1, MaxRetries}
\* the wall clock bounds the number of writes of the model, so at its bound
\* every save of a watched file fails
UsdaFailures == IF clock < MaxClock THEN SaveFailures ELSE {MaxRetries}

\* SubmitAnswer as an operation: the call and its effect on the files
\* ur: whether the load of bridge_state.usda succeeds; usdaFails, jsonFails:
\* the failing save attempts on bridge_state.usda and on answer.json
SubmitAnswerWith(ResponseTimeMs, ur, usdaFails, jsonFails) ==
  LET w == SubmitAnswer(Self, Env(ur, TRUE), ResponseTimeMs, usdaFails, jsonFails)
  IN /\ Becomes(w.b)
     \* lines 611-612: UpdateUsdaVariant of sync_status and message_type
     /\ usdaFile' = IF w.usdaWritten
                      THEN StateFile(TRUE,
                             [usdaFile.doc EXCEPT !.message_type = "answer",
                                                  !.sync_status = "answer_received"],
                             clock + 1)
                      ELSE usdaFile
     /\ clock' = IF w.usdaWritten THEN clock + 1 ELSE clock
     /\ last' = WriteOp("SubmitAnswer", w)
     /\ UNCHANGED <<bIsActive, timerVars, jsonFile, profileFile, substrateFile>>

SubmitAnswerCall(QuestionId, OptionIndex, ResponseTimeMs) ==
  /\ Len(ResponseTimes) < MaxResponses
  /\ \E ur \in Loads(bUsingUsdMode /\ usdaFile.exists),
        usdaFails \in UsdaFailures, jsonFails \in SaveFailures :
       SubmitAnswerWith(ResponseTimeMs, ur, usdaFails, jsonFails)

\* SendAcknowledge as an operation
SendAcknowledgeWith(ur, usdaFails, jsonFails) ==
  LET w == SendAcknowledge(Self, Env(ur, TRUE), usdaFails, jsonFails)
  IN /\ Becomes(w.b)
     \* line 669: UpdateUsdaVariant of message_type
     /\ usdaFile' = IF w.usdaWritten
                      THEN [usdaFile EXCEPT !.doc.message_type = "ack",
                                            !.mtime = clock + 1]
                      ELSE usdaFile
     /\ clock' = IF w.usdaWritten THEN clock + 1 ELSE clock
     /\ last' = WriteOp("SendAcknowledge", w)
     /\ UNCHANGED <<bIsActive, timerVars, jsonFile, profileFile, substrateFile>>

SendAcknowledgeCall ==
  \E ur \in Loads(usdaFile.exists),
     usdaFails \in UsdaFailures, jsonFails \in SaveFailures :
    SendAcknowledgeWith(ur, usdaFails, jsonFails)

\* ------------------------------------------------------------------------
\* The orchestrator (the other process writing the exchange directory)
\* ------------------------------------------------------------------------
\* a write of bridge_state.usda while fewer than cap writes have been made
OrchWriteUsdaWithin(doc, cap) ==
  /\ clock < cap
  /\ usdaFile' = StateFile(TRUE, doc, clock + 1)
  /\ clock' = clock + 1
  /\ last' = Quiet
  /\ UNCHANGED <<bridgeVars, timerVars, jsonFile, profileFile, substrateFile>>

OrchWriteUsda(doc) == OrchWriteUsdaWithin(doc, MaxClock)

OrchWriteJson(doc) ==
  /\ clock < MaxClock
  /\ jsonFile' = StateFile(TRUE, doc, clock + 1)
  /\ clock' = clock + 1
  /\ last' = Quiet
  /\ UNCHANGED <<bridgeVars, timerVars, usdaFile, profileFile, substrateFile>>

OrchRemoveUsda ==
  /\ usdaFile.exists
  /\ usdaFile' = NoStateFile
  /\ last' = Quiet
  /\ UNCHANGED <<bridgeVars, timerVars, jsonFile, profileFile, substrateFile, clock>>

OrchWriteProfile(name) ==
  /\ clock < MaxClock
  /\ IF name = ProfileName
       THEN profileFile' = WatchedFile(TRUE, clock + 1) /\ UNCHANGED substrateFile
       ELSE substrateFile' = WatchedFile(TRUE, clock + 1) /\ UNCHANGED profileFile
  /\ clock' = clock + 1
  /\ last' = Quiet
  /\ UNCHANGED <<bridgeVars, timerVars, usdaFile, jsonFile>>

\* ------------------------------------------------------------------------
\* Inputs
\* ------------------------------------------------------------------------
Labels == <<"A", "B", "C">>
DeltaTimes == 1 .. MaxDelta
\* the documents the orchestrator writes: one of each message type, and one
\* of each type that lacks a field
FirstQuestion == QuestionDoc("question_pending", 0, NumQuestions, "load", Labels)
LastQuestion ==
  QuestionDoc("question_pending", NumQuestions - 1, NumQuestions, "pace", Labels)
UsdaDocs ==
  {ReadyDoc(NumQuestions), ReadyDoc(0), FirstQuestion,
   QuestionDoc("question_pending", 0, 0, "", <<>>),
   TransitionDoc, FinaleDoc(ProfileName), FinaleDoc("")}
JsonDocs == {Garbage, ReadyDoc(NumQuestions), ReadyDoc(0), FirstQuestion, FinaleDoc("")}
ResponseTimesMs == {400, 12000}

\* ------------------------------------------------------------------------
\* The protocol: the game flow and the dispatch of the state documents.
\* Every frame is as long as the poll interval, so every Tick polls and a
\* detected change is processed in the Tick that detects it.
\* ------------------------------------------------------------------------
\* an operation outside the audit and the second execution
Plain == UNCHANGED <<audit, peer, writes, stage, profileDoc, parsed, call, bus, hud>>

Next ==
  \/ StartGame /\ Plain
  \/ StopGame /\ Plain
  \/ Tick(PollInterval) /\ Plain
  \/ SubmitAnswerCall("load", 1, 400) /\ Plain
  \/ SendAcknowledgeCall /\ Plain
  \/ \E d \in UsdaDocs : OrchWriteUsda(d) /\ Plain
  \/ \E d \in JsonDocs : OrchWriteJson(d) /\ Plain
  \/ OrchRemoveUsda /\ Plain
  \/ OrchWriteProfile(ProfileName) /\ Plain

Spec == Init /\ [][Next]_vars

\* ------------------------------------------------------------------------
\* The change detection, with its audit
\* ------------------------------------------------------------------------
Audit(o) ==
  /\ audit' = AuditAfter(audit,
                         [o EXCEPT !.mtime = IF last'.psf.calls \cap UsdaHandlers # {}
                                               THEN usdaFile.mtime ELSE jsonFile.mtime],
                         last')
  /\ UNCHANGED <<peer, writes, stage, profileDoc, parsed, call, bus, hud>>
Stopped == [NoObs EXCEPT !.stopped = TRUE]
Notified == [NoObs EXCEPT !.notified = TRUE]
UsdNotified == [NoObs EXCEPT !.usdNotified = TRUE]
FileModified == [NoObs EXCEPT !.modified = TRUE]

\* The timing of poll and debounce of the state files: frames of every
\* DeltaTime, one document of each format
NextTiming ==
  \/ StartGame /\ Audit(NoObs)
  \/ StopGame /\ Audit(Stopped)
  \/ \E dt \in DeltaTimes : Tick(dt) /\ Audit(TickObs(dt))
  \/ NotifyFileChanged(FALSE) /\ Audit(Notified)
  \/ OrchWriteUsda(ReadyDoc(NumQuestions)) /\ Audit(FileModified)
  \/ OrchWriteJson(Garbage) /\ Audit(FileModified)

SpecTiming == Init /\ [][NextTiming]_vars

\* Stopping and restarting with changes of the state and profile files
\* pending; every frame is as long as the poll interval
NextRestart ==
  \/ StartGame /\ Audit(NoObs)
  \/ StopGame /\ Audit(Stopped)
  \/ Tick(PollInterval) /\ Audit(TickObs(PollInterval))
  \/ NotifyFileChanged(FALSE) /\ Audit(Notified)
  \/ NotifyFileChanged(TRUE) /\ Audit(UsdNotified)
  \/ OrchWriteUsda(ReadyDoc(NumQuestions)) /\ Audit(FileModified)
  \/ \E n \in {ProfileName, SubstrateName} : OrchWriteProfile(n) /\ Audit(NoObs)

SpecRestart == Init /\ [][NextRestart]_vars

\* ------------------------------------------------------------------------
\* Two executions of the bridge given the same submissions.  The second
\* execution (peer) is a bridge value of its own: it processes documents of
\* its own, and every SubmitAnswer call is made on both with the same
\* arguments.
\* ------------------------------------------------------------------------
\* the fields of a bridge value, without the record of the operation
Fresh(b) == [b EXCEPT !.events = <<>>, !.calls = {}, !.ret = TRUE]

\* the exchange directory of the peer when bridge_state.usda holds doc
PeerEnv(doc, readable) ==
  [usda |-> StateFile(TRUE, doc, 1), json |-> NoStateFile,
   usdaReadable |-> readable, jsonReadable |-> FALSE, profileReadable |-> FALSE]

PairDocs == {ReadyDoc(NumQuestions), FirstQuestion, LastQuestion}

\* the peer runs ProcessStateFile on a document
PeerProcess(doc) ==
  /\ peer' = Fresh(ProcessStateFile(peer, PeerEnv(doc, TRUE)))
  /\ last' = Quiet
  /\ UNCHANGED <<bridgeVars, timerVars, fileVars>>

\* SubmitAnswer with the same arguments in both executions
PairSubmit(QuestionId, OptionIndex, ResponseTimeMs) ==
  /\ Len(peer.ResponseTimes) < MaxResponses
  /\ SubmitAnswerCall(QuestionId, OptionIndex, ResponseTimeMs)
  /\ \E pr \in Loads(peer.bUsingUsdMode) :
       peer' = Fresh(SubmitAnswer(peer, PeerEnv(EmptyDoc, pr), ResponseTimeMs, 0, 0).b)

NextPair ==
  \/ StartGame /\ Plain
  \/ StopGame /\ Plain
  \/ Tick(PollInterval) /\ Plain
  \/ \E d \in PairDocs : OrchWriteUsda(d) /\ Plain
  \/ \E d \in PairDocs : PeerProcess(d) /\ UNCHANGED <<audit, writes, stage, profileDoc, parsed, call, bus, hud>>
  \/ \E t \in ResponseTimesMs : PairSubmit("load", 1, t) /\ UNCHANGED <<audit, writes, stage, profileDoc, parsed, call, bus, hud>>

SpecPair == Init /\ [][NextPair]_vars

\* ------------------------------------------------------------------------
\* The writes of the bridge: answers and acknowledgements under every
\* outcome of the loads and saves, with the record of each call.
\* ------------------------------------------------------------------------
\* response times below, at and above the two thresholds, and at and between
\* the two limits of the exploring rule
SessionTimesMs == {400, 500, 10000, 12000, 3000, 5000, 8000}

Wrote(name, w, ResponseTimeMs) ==
  writes' = WriteLog(name, w, ResponseTimeMs) /\ UNCHANGED <<audit, peer, stage, profileDoc, parsed, call, bus, hud>>

SubmitAnswerLogged(ResponseTimeMs) ==
  /\ Len(ResponseTimes) < MaxResponses
  /\ \E ur \in Loads(bUsingUsdMode /\ usdaFile.exists),
        usdaFails \in UsdaFailures, jsonFails \in SaveFailures :
       /\ SubmitAnswerWith(ResponseTimeMs, ur, usdaFails, jsonFails)
       /\ Wrote("SubmitAnswer",
                SubmitAnswer(Self, Env(ur, TRUE), ResponseTimeMs, usdaFails, jsonFails),
                ResponseTimeMs)

SendAcknowledgeLogged ==
  \E ur \in Loads(usdaFile.exists),
     usdaFails \in UsdaFailures, jsonFails \in SaveFailures :
    /\ SendAcknowledgeWith(ur, usdaFails, jsonFails)
    /\ Wrote("SendAcknowledge",
             SendAcknowledge(Self, Env(ur, TRUE), usdaFails, jsonFails), 0)

NextWrites ==
  \/ StartGame /\ Plain
  \/ StopGame /\ Plain
  \/ Tick(PollInterval) /\ Plain
  \/ OrchWriteUsda(ReadyDoc(NumQuestions)) /\ Plain
  \/ \E t \in ResponseTimesMs : SubmitAnswerLogged(t)
  \/ SendAcknowledgeLogged

SpecWrites == Init /\ [][NextWrites]_vars

\* The sessions of one game: answers at response times below, at and above
\* the two thresholds of the signal engine, across StopGame and StartGame.
NextSession ==
  \/ StartGame /\ Plain
  \/ StopGame /\ Plain
  \/ OrchWriteUsda(ReadyDoc(NumQuestions)) /\ Plain
  \/ \E t \in SessionTimesMs : SubmitAnswerLogged(t)

SpecSession == Init /\ [][NextSession]_vars

\* ------------------------------------------------------------------------
\* The signal engine alone: one bridge in text-format mode that is given
\* questions and answers, every save succeeding.
\* ------------------------------------------------------------------------
EngineTimesMs == {400, 5000, 60000}

PeerSubmit(ResponseTimeMs) ==
  /\ Len(peer.ResponseTimes) < MaxHistory
  /\ LET w == SubmitAnswer(peer, PeerEnv(EmptyDoc, TRUE), ResponseTimeMs, 0, 0)
     IN peer' = Fresh(w.b) /\ last' = WriteOp("SubmitAnswer", w)
  /\ UNCHANGED <<bridgeVars, timerVars, fileVars>>

NextEngine ==
  \/ \E d \in PairDocs : PeerProcess(d) /\ UNCHANGED <<audit, writes, stage, profileDoc, parsed, call, bus, hud>>
  \/ \E t \in EngineTimesMs : PeerSubmit(t) /\ UNCHANGED <<audit, writes, stage, profileDoc, parsed, call, bus, hud>>

SpecEngine == Init /\ [][NextEngine]_vars

\* ------------------------------------------------------------------------
\* The attribute codec on its own: a document is loaded, then attributes of
\* its prims are written one after another.
\* ------------------------------------------------------------------------
StageLoad(Content) ==
  /\ stage' = [NoStage EXCEPT !.doc = Content, !.before = Content, !.op = "load"]
  /\ UNCHANGED <<bridgeVars, timerVars, fileVars, last, audit, peer, writes,
                 profileDoc, parsed, call, bus, hud>>

StageUpdate(PrimName, AttrName, NewValue, bIsString) ==
  /\ stage.op # "none"
  /\ stage.edits < MaxEdits
  /\ stage' = [doc |-> UpdateUsdaAttribute(stage.doc, PrimName, AttrName, NewValue, bIsString),
               before |-> stage.doc, op |-> "update", edits |-> stage.edits + 1,
               PrimName |-> PrimName, AttrName |-> AttrName,
               NewValue |-> NewValue, bIsString |-> bIsString]
  /\ UNCHANGED <<bridgeVars, timerVars, fileVars, last, audit, peer, writes,
                 profileDoc, parsed, call, bus, hud>>

StageVariant(VariantSetName, NewValue) ==
  /\ stage.op # "none"
  /\ stage.edits < MaxEdits
  /\ stage' = [doc |-> UpdateUsdaVariant(stage.doc, VariantSetName, NewValue),
               before |-> stage.doc, op |-> "variant", edits |-> stage.edits + 1,
               PrimName |-> "", AttrName |-> VariantSetName,
               NewValue |-> NewValue, bIsString |-> TRUE]
  /\ UNCHANGED <<bridgeVars, timerVars, fileVars, last, audit, peer, writes,
                 profileDoc, parsed, call, bus, hud>>

StageParse(PrimPath, AttrName) ==
  /\ stage.op # "none"
  /\ stage' = [stage EXCEPT !.before = stage.doc, !.op = "parse",
                            !.PrimName = PrimPath, !.AttrName = AttrName,
                            !.NewValue = ParseUsdaAttribute(stage.doc, PrimPath, AttrName),
                            !.bIsString = FALSE]
  /\ UNCHANGED <<bridgeVars, timerVars, fileVars, last, audit, peer, writes,
                 profileDoc, parsed, call, bus, hud>>

NextCodec ==
  \/ \E Content \in StageDocs : StageLoad(Content)
  \/ \E PrimPath \in ReadPrims, AttrName \in ReadNames : StageParse(PrimPath, AttrName)
  \/ \E VariantSetName \in StageStrings, NewValue \in StringValues :
       StageVariant(VariantSetName, NewValue)
  \/ \E PrimName \in StagePrims, AttrName \in StageStrings, NewValue \in StringValues :
       StageUpdate(PrimName, AttrName, NewValue, TRUE)
  \/ \E PrimName \in StagePrims, AttrName \in StageNumbers, NewValue \in NumberValues :
       StageUpdate(PrimName, AttrName, NewValue, FALSE)

SpecCodec == Init /\ [][NextCodec]_vars

\* ------------------------------------------------------------------------
\* The change detection of a bridge that stays active and keeps ticking.
\* The modification time of a file the orchestrator writes is the time of
\* the write or, when the write falls in the same unit of the file time as
\* the write before it, the time of that write.  Every write of a file
\* gives it a later modification time than the file had.
\* ------------------------------------------------------------------------
\* a write of state.json made while bridge_state.usda does not exist
OrchWriteJsonAt(doc, mtime) ==
  /\ ~usdaFile.exists
  /\ mtime > jsonFile.mtime
  /\ jsonFile' = StateFile(TRUE, doc, mtime)
  /\ clock' = mtime
  /\ last' = Op("OrchWriteJson", <<>>, NoPsf)
  /\ UNCHANGED <<bridgeVars, timerVars, usdaFile, profileFile, substrateFile>>

\* a write of one of the two profile files
OrchWriteProfileAt(name, mtime) ==
  /\ mtime > (IF name = ProfileName THEN profileFile.mtime ELSE substrateFile.mtime)
  /\ IF name = ProfileName
       THEN profileFile' = WatchedFile(TRUE, mtime) /\ UNCHANGED substrateFile
       ELSE substrateFile' = WatchedFile(TRUE, mtime) /\ UNCHANGED profileFile
  /\ clock' = mtime
  /\ last' = Op("OrchWriteProfile", <<>>, NoPsf)
  /\ UNCHANGED <<bridgeVars, timerVars, usdaFile, jsonFile>>

NextLive ==
  \/ StartGame /\ Plain
  \/ Tick(PollInterval) /\ Plain
  \/ OrchWriteUsda(ReadyDoc(NumQuestions)) /\ Plain
  \/ OrchRemoveUsda /\ Plain
  \/ \E doc \in {ReadyDoc(NumQuestions), FirstQuestion},
        mtime \in {clock, clock + 1} \cap (1 .. MaxClock) :
       OrchWriteJsonAt(doc, mtime) /\ Plain
  \/ \E name \in {ProfileName, SubstrateName},
        mtime \in {clock, clock + 1} \cap (1 .. MaxClock) :
       OrchWriteProfileAt(name, mtime) /\ Plain

\* the engine calls Tick in every frame while IsTickable() (bIsActive)
SpecLive == Init /\ [][NextLive]_vars /\ WF_vars(Tick(PollInterval) /\ Plain)

\* ------------------------------------------------------------------------
\* The pixel bus: one statement of the render thread or of the reader
\* ------------------------------------------------------------------------
\* WriteFrame (PixelBus.cpp, lines 11-30), statement by statement; the
\* producer numbers the frames 1, 2, ...
WriteFrame ==
  LET w == bus.w
      k == w.FrameNumber
      s == w.SlotIndex
  IN /\ bus' =
          CASE w.pc = "return" ->
                 [bus EXCEPT !.w = [pc |-> "bReady = false",
                                    SlotIndex |-> bus.WriteIndex % NUM_SLOTS,
                                    FrameNumber |-> k + 1]]
            [] w.pc = "bReady = false" ->
                 [bus EXCEPT !.Slots[s].bReady = FALSE, !.w.pc = "Pixels"]
            [] w.pc = "Pixels" -> [bus EXCEPT !.Slots[s].Pixels = k, !.w.pc = "Size"]
            [] w.pc = "Size" -> [bus EXCEPT !.Slots[s].Size = k, !.w.pc = "FrameNumber"]
            [] w.pc = "FrameNumber" ->
                 [bus EXCEPT !.Slots[s].FrameNumber = k, !.w.pc = "Timestamp"]
            [] w.pc = "Timestamp" ->
                 [bus EXCEPT !.Slots[s].Timestamp = k, !.w.pc = "bReady = true"]
            [] w.pc = "bReady = true" ->
                 [bus EXCEPT !.Slots[s].bReady = TRUE, !.w.pc = "LatestFrame"]
            [] w.pc = "LatestFrame" ->
                 [bus EXCEPT !.LatestFrame = k, !.w.pc = "WriteIndex"]
            [] OTHER -> [bus EXCEPT !.WriteIndex = s + 1, !.w.pc = "return"]
     /\ w.pc = "return" => k < MaxFrames
     /\ UNCHANGED <<bridgeVars, timerVars, fileVars, last, audit, peer, writes, stage,
                    profileDoc, parsed, call, hud>>

\* ReadLatest (lines 32-59) and ReadLatestWithMetadata (lines 94-124),
\* statement by statement: the loop over the slots, then the copies
ReadLatest(fn) ==
  LET r == bus.r
      Slot == bus.Slots[r.i]
      Best == bus.Slots[r.BestSlot]
      \* ++i, and the test of BestSlot once the loop is over
      next == IF r.i + 1 < NUM_SLOTS THEN [r EXCEPT !.i = r.i + 1, !.pc = "bReady"]
              ELSE [r EXCEPT !.i = 0, !.pc = "BestSlot"]
  IN /\ bus' = [bus EXCEPT !.r =
          CASE r.pc = "return" ->
                 [pc |-> "bReady", fn |-> fn, i |-> 0, BestFrame |-> 0, BestSlot |-> -1,
                  Out |-> FFrameSlot, ret |-> FALSE]
            [] r.pc = "bReady" -> IF Slot.bReady THEN [r EXCEPT !.pc = "compare"] ELSE next
            [] r.pc = "compare" ->
                 IF Slot.FrameNumber > r.BestFrame THEN [r EXCEPT !.pc = "assign"] ELSE next
            [] r.pc = "assign" ->
                 [next EXCEPT !.BestFrame = Slot.FrameNumber, !.BestSlot = r.i]
            [] r.pc = "BestSlot" ->
                 IF r.BestSlot < 0 THEN [r EXCEPT !.pc = "return"]
                 ELSE [r EXCEPT !.pc = "OutPixels"]
            [] r.pc = "OutPixels" -> [r EXCEPT !.Out.Pixels = Best.Pixels, !.pc = "OutSize"]
            [] r.pc = "OutSize" -> [r EXCEPT !.Out.Size = Best.Size, !.pc = "OutFrameNumber"]
            [] r.pc = "OutFrameNumber" ->
                 [r EXCEPT !.Out.FrameNumber = Best.FrameNumber, !.pc = "OutTimestamp"]
            [] OTHER ->
                 [r EXCEPT !.Out.Timestamp = Best.Timestamp, !.ret = TRUE, !.pc = "return"]]
     /\ fn = IF r.pc = "return" THEN fn ELSE r.fn
     /\ UNCHANGED <<bridgeVars, timerVars, fileVars, last, audit, peer, writes, stage,
                    profileDoc, parsed, call, hud>>

NextBus ==
  \/ WriteFrame
  \/ \E fn \in {"ReadLatest", "ReadLatestWithMetadata"} : ReadLatest(fn)

SpecBus == Init /\ [][NextBus]_vars

\* ------------------------------------------------------------------------
\* The HUD: frames with or without a number key, clicks on an option button
\* of the question widget, questions arriving from the bridge
\* ------------------------------------------------------------------------
HudUnchanged ==
  UNCHANGED <<bridgeVars, timerVars, fileVars, last, audit, peer, writes, stage,
              profileDoc, parsed, call, bus>>

\* AUEBridgeHUD::Tick (lines 527-532)
HudTick(DeltaSeconds, key) ==
  /\ hud' = HandleKeyInput(
              UpdateTransition(
                [hud EXCEPT !.SinceQuestion = Min(@ + DeltaSeconds, InputGuard)],
                DeltaSeconds),
              key)
  /\ HudUnchanged

\* UW_QuestionDisplay::HandleOptionClicked, which broadcasts to
\* AUEBridgeHUD::OnAnswerSelected
HandleOptionClicked(OptionIndex) ==
  /\ hud.CurrentHUDState = "Questions"
  /\ hud' = IF hud.SelectedOptionIndex # -1 THEN hud
            ELSE OnAnswerSelected([hud EXCEPT !.SelectedOptionIndex = OptionIndex],
                                  OptionIndex)
  /\ HudUnchanged

\* AUEBridgeHUD::OnQuestionReceived (lines 399-446) with
\* UW_QuestionDisplay::ShowQuestion
OnQuestionReceived ==
  /\ LET h == [hud EXCEPT !.SinceQuestion = 0, !.SelectedOptionIndex = -1, !.sent = 0]
     IN hud' = IF hud.CurrentHUDState = "Connecting"
                 THEN [h EXCEPT !.CurrentHUDState = "Questions"]
               ELSE IF hud.TransitionState = "WaitForNext"
                 THEN [h EXCEPT !.TransitionState = "FadeIn", !.TransitionTimer = 0]
               ELSE h
  /\ HudUnchanged

NextHud ==
  \/ \E DeltaSeconds \in {3, 60}, key \in -1 .. 2 : HudTick(DeltaSeconds, key)
  \/ \E OptionIndex \in 0 .. 2 : HandleOptionClicked(OptionIndex)
  \/ OnQuestionReceived

SpecHud == Init /\ [][NextHud]_vars

\* ------------------------------------------------------------------------
\* The two processes on bridge_state.usda.  SubmitAnswer and SendAcknowledge
\* load the file, change the text they loaded and save it; the orchestrator
\* is another process and may write the file between the load and the save
\* (the save is retried after a sleep of 0.1 s).  The game thread runs
\* nothing else during the call.
\* ------------------------------------------------------------------------
\* lines 600-603 and 662-664: the load at the head of the call
LoadFileToString(op, ResponseTimeMs) ==
  /\ call.op = "none"
  /\ usdaFile.exists
  /\ op = "SubmitAnswer" => bUsingUsdMode /\ Len(ResponseTimes) < MaxResponses
  /\ call' = [op |-> op, Content |-> usdaFile.doc, ResponseTimeMs |-> ResponseTimeMs]
  /\ last' = Quiet
  /\ UNCHANGED <<bridgeVars, timerVars, fileVars, audit, peer, writes, stage,
                 profileDoc, parsed, bus, hud>>

\* lines 611-634 and 669-681: the changes to the loaded text and its save,
\* and the rest of the call
SaveStringToFile(usdaFails) ==
  /\ call.op # "none"
  /\ LET w == IF call.op = "SubmitAnswer"
                THEN SubmitAnswer(Self, Env(TRUE, TRUE), call.ResponseTimeMs, usdaFails, 0)
                ELSE SendAcknowledge(Self, Env(TRUE, TRUE), usdaFails, 0)
         Content == IF call.op = "SubmitAnswer"
                      THEN [call.Content EXCEPT !.message_type = "answer",
                                                !.sync_status = "answer_received"]
                      ELSE [call.Content EXCEPT !.message_type = "ack"]
     IN /\ Becomes(w.b)
        /\ usdaFile' = IF w.usdaWritten THEN StateFile(TRUE, Content, clock + 1)
                       ELSE usdaFile
        /\ clock' = IF w.usdaWritten THEN clock + 1 ELSE clock
        /\ last' = WriteOp(call.op, w)
  /\ call' = NoCall
  /\ UNCHANGED <<bIsActive, timerVars, jsonFile, profileFile, substrateFile,
                 audit, peer, writes, stage, profileDoc, parsed, bus, hud>>

NextRace ==
  \/ call.op = "none" /\ StartGame /\ Plain
  \/ \E doc \in {ReadyDoc(NumQuestions), FirstQuestion, LastQuestion} :
       OrchWriteUsdaWithin(doc, MaxExchange) /\ Plain
  \/ \E op \in {"SubmitAnswer", "SendAcknowledge"}, t \in ResponseTimesMs :
       LoadFileToString(op, t)
  \/ \E usdaFails \in (IF clock < MaxExchange THEN SaveFailures ELSE {MaxRetries}) :
       SaveStringToFile(usdaFails)

SpecRace == Init /\ [][NextRace]_vars

\* ------------------------------------------------------------------------
\* The exchange of one question in text format, with the text of
\* bridge_state.usda (stage.doc): the orchestrator writes a ready and a
\* question message, the bridge processes them and writes the answer.
\* ------------------------------------------------------------------------
ExchangeWrite(doc) ==
  /\ OrchWriteUsdaWithin(doc, MaxExchange)
  /\ stage' = [NoStage EXCEPT !.doc = BridgeDoc(doc), !.before = BridgeDoc(doc),
                              !.op = "load"]
  /\ UNCHANGED <<audit, peer, writes, profileDoc, parsed, call, bus, hud>>

ExchangeSubmit(QuestionId, OptionIndex, ResponseTimeMs) ==
  /\ Len(ResponseTimes) < MaxResponses
  /\ \E ur \in Loads(bUsingUsdMode /\ usdaFile.exists),
        usdaFails \in (IF clock < MaxExchange THEN SaveFailures ELSE {MaxRetries}) :
       LET w == SubmitAnswer(Self, Env(ur, TRUE), ResponseTimeMs, usdaFails, 0)
       IN /\ SubmitAnswerWith(ResponseTimeMs, ur, usdaFails, 0)
          /\ writes' = [WriteLog("SubmitAnswer", w, ResponseTimeMs)
                          EXCEPT !.OptionIndex = OptionIndex]
          /\ stage' = IF w.usdaWritten
                        THEN [stage EXCEPT
                                !.doc = SubmitContent(stage.doc, Self, w.b, QuestionId,
                                                      OptionIndex, ResponseTimeMs),
                                !.before = stage.doc, !.op = "SubmitAnswer"]
                        ELSE stage
          /\ UNCHANGED <<audit, peer, profileDoc, parsed, call, bus, hud>>

NextExchange ==
  \/ StartGame /\ Plain
  \/ Tick(PollInterval) /\ Plain
  \/ \E d \in {ReadyDoc(NumQuestions), FirstQuestion, LastQuestion} : ExchangeWrite(d)
  \/ \E k \in {-1, 1}, ms \in {400, 3500} : ExchangeSubmit("load", k, ms)

SpecExchange == Init /\ [][NextExchange]_vars

\* ------------------------------------------------------------------------
\* The two formats side by side: the bridge processes the JSON encoding of
\* a message while a second bridge value (peer), taken in the same state,
\* processes its text encoding; peer keeps the events of that call.
\* ------------------------------------------------------------------------
ParityProcess(doc) ==
  LET json == [usda |-> NoStateFile, json |-> StateFile(TRUE, doc, 1),
               usdaReadable |-> FALSE, jsonReadable |-> TRUE, profileReadable |-> FALSE]
      j == ProcessStateFile(Self, json)
  IN /\ Becomes(j)
     /\ peer' = ProcessStateFile(Self, PeerEnv(doc, TRUE))
     /\ last' = Op("ProcessStateFile", j.events, PsfLog(Self, j, json))
     /\ UNCHANGED <<bIsActive, timerVars, fileVars, audit, writes, stage, profileDoc, parsed, call, bus, hud>>

NextParity ==
  \/ StartGame /\ Plain
  \/ StopGame /\ Plain
  \/ SubmitAnswerCall("load", 1, 400) /\ Plain
  \/ \E d \in {ReadyDoc(NumQuestions), ReadyDoc(0), FirstQuestion, LastQuestion,
               QuestionDoc("question_pending", 0, NumQuestions, "load", <<"A", "B">>),
               QuestionDoc("question_pending", 0, NumQuestions, "load", <<"A", "B", "C", "D">>),
               TransitionDoc, FinaleDoc(ProfileName)}
             \cup {QuestionDoc("question_pending", i, MaxIndex + 1, "load", Labels) :
                     i \in 1..MaxIndex} : ParityProcess(d)

SpecParity == Init /\ [][NextParity]_vars

\* ------------------------------------------------------------------------
\* Profile parsing on a live bridge: the orchestrator exports profile
\* documents, the questionnaire goes on, and ParseCognitiveProfile is
\* called on the exported name or on a name that no file has.
\* ------------------------------------------------------------------------
OrchWriteProfileDoc(doc) ==
  /\ clock < MaxExchange
  /\ profileFile' = WatchedFile(TRUE, clock + 1)
  /\ profileDoc' = doc
  /\ clock' = clock + 1
  /\ last' = Quiet
  /\ UNCHANGED <<bridgeVars, timerVars, usdaFile, jsonFile, substrateFile,
                 audit, peer, writes, stage, parsed, call, bus, hud>>

\* a call of ParseCognitiveProfile (lines 1372-1546); each entry of the log
\* keeps the state the bridge was in
ParseCognitiveProfileCall(UsdPath) ==
  \E loaded \in IF UsdPath = ProfileName /\ profileFile.exists THEN BOOLEAN ELSE {FALSE} :
    LET env == [Env(TRUE, TRUE) EXCEPT !.profileReadable = loaded]
        b == ParseCognitiveProfile(Self, UsdPath, env)
        Content == ProfileContent(profileDoc)
        Profile == IF loaded THEN FUEBridgeProfile(Self, UsdPath, Content) ELSE EmptyProfile
    IN /\ Becomes(b)
       /\ parsed' = [ret |-> Profile, read |-> loaded,
                     log |-> IF loaded
                             THEN parsed.log \cup {<<Content, Profile, CurrentState>>}
                             ELSE parsed.log]
       /\ last' = Op("ParseCognitiveProfile", b.events, NoPsf)
       /\ UNCHANGED <<bIsActive, timerVars, fileVars, audit, peer, writes, stage, profileDoc,
                      call, bus, hud>>

NextProfile ==
  \/ StartGame /\ Plain
  \/ StopGame /\ Plain
  \/ \E d \in {ReadyDoc(NumQuestions), FirstQuestion} : OrchWriteUsdaWithin(d, MaxExchange) /\ Plain
  \/ \E d \in {ProfileDoc("", "", "", <<>>, <<>>),
               ProfileDoc("101bfab5", "[TRANSLATORS:101bfab5]", "",
                          << <<"cognitive_density", 72>>, <<"processing_pace", 30>> >>,
                          << <<"load", "Synthesizer">>, <<"pace", "Steady">>,
                             <<"rhythm", "Own">> >>),
               ProfileDoc("101bfab5", "[TRANSLATORS:101bfab5]", "[T:101bfab5]",
                          << <<"cognitive_density", 70>>, <<"processing_pace", 31>>,
                             <<"home_altitude", 69>>, <<"tangent_tolerance", 100>>,
                             <<"feedback_style", 5>> >>,
                          << <<"essence", "Wanderer">>, <<"recovery", "Grounded">>,
                             <<"pace", "Steady">>, <<"load", "Synthesizer">>,
                             <<"feedback", "Direct">>, <<"uncertainty", "Open">> >>)} :
        OrchWriteProfileDoc(d)
  \/ \E path \in {ProfileName, "missing.usda"} : ParseCognitiveProfileCall(path)

SpecProfile == Init /\ [][NextProfile]_vars

\* ------------------------------------------------------------------------
\* Properties
\* ------------------------------------------------------------------------
\* the error events among the events of an operation
ErrorCodes(events) ==
  {events[i].code : i \in {j \in DOMAIN events : events[j].name = "OnBridgeError"}}

\* C1: whenever ProcessStateFile runs while bridge_state.usda exists, it acts
\* only on that file: state.json is not parsed and no JSON handler runs in
\* that call, also when bridge_state.usda exists but cannot be loaded.
C1_TextFormatOnly ==
  last.psf.ran /\ last.psf.usdaExisted
    => last.psf.calls \cap (JsonHandlers \cup {"DeserializeJson"}) = {}

\* C2: if bridge_state.usda is absent and state.json is unparseable,
\* ProcessStateFile broadcasts exactly one error event, of the JSON parse
\* failure kind, and leaves CurrentState and CurrentQuestion as they were; the
\* state does not become Error.
C2_MalformedJsonLeavesState ==
  last.psf.ran /\ last.psf.jsonMalformed
    => /\ last.psf.events = <<OnBridgeError("JsonParseFailure")>>
       /\ last.psf.unchanged
       /\ CurrentState # "Error"

\* C2, its case: unparseable JSON processed by a Tick while a question is active
C2_MalformedJsonSeen ==
  /\ last.op = "Tick" /\ last.psf.ran /\ last.psf.jsonMalformed
  /\ CurrentState = "QuestionActive"
  /\ CurrentQuestion # EmptyQuestion

\* C3: in every reachable state CurrentQuestion is non-empty only if
\* CurrentState is QuestionActive, AnswerPending or Transitioning.
C3_QuestionOnlyWhileAsked ==
  CurrentQuestion # EmptyQuestion
    => CurrentState \in {"QuestionActive", "AnswerPending", "Transitioning"}

\* C4: two executions that have passed the same sequence of submissions to
\* the behavioral signal engine hold the same classification (detected
\* state, recommended expert, burnout level, momentum phase), whatever the
\* question current at each submission.
C4_SameSubmissionsSameClassification ==
  ResponseTimes = peer.ResponseTimes => ClassOf(Signals) = ClassOf(peer.Signals)

\* C5: when SubmitAnswer returns, CurrentState is AnswerPending, whether the
\* text-format save succeeded, the JSON fallback save succeeded, or every
\* save attempt failed.
C5_SubmitEntersAnswerPending ==
  last.op = "SubmitAnswer" => CurrentState = "AnswerPending"

\* C5, its case: a SubmitAnswer of which every save attempt failed
C5_SubmitWithEveryWriteFailed ==
  /\ last.op = "SubmitAnswer"
  /\ last.wrote = "none"
  /\ "FileWriteFailure" \in ErrorCodes(last.events)

\* C6: processing a ready, question, transition or finale document that
\* lacks a required field broadcasts a parse-failure error event and changes
\* neither CurrentState nor CurrentQuestion.
C6_LackingFieldRejected ==
  last.psf.ran /\ last.psf.lacking
    => /\ ErrorCodes(last.psf.events) \cap {"JsonParseFailure", "UsdParseFailure"} # {}
       /\ last.psf.unchanged

\* C7: if a state-file change detected by polling is processed and the read
\* or the parse fails, CurrentState and CurrentQuestion are unchanged and,
\* with the file left unmodified, ProcessStateFile is invoked again on the
\* next poll tick.
C7_FailureRetriedOnNextPoll ==
  /\ audit.fired /\ audit.origin = "poll" /\ last.psf.failed => last.psf.unchanged
  /\ ~audit.retryMissed

\* C8: a change detected or notified before a StopGame call never makes
\* ProcessStateFile or a profile-file-updated event fire after that call has
\* returned, neither while the bridge is stopped nor after a later StartGame.
C8_StopCancelsPendingChanges ==
  /\ audit.fired => audit.stateChangeAfterStop
  /\ (\E i \in DOMAIN last.events : last.events[i].name = "OnUsdProfileUpdated")
       => audit.usdChangeAfterStop

\* C9: a state-file change detected by a poll never runs ProcessStateFile in
\* the Tick that detected it, and runs it only once DebounceTime has elapsed
\* after the detection without a further change.
C9_DebounceAfterDetection ==
  audit.fired /\ audit.origin = "poll"
    => ~audit.detected /\ audit.sinceChangeAtFire >= DebounceTime

\* C10: state-file changes that arrive less than DebounceTime apart are
\* coalesced: ProcessStateFile does not run between two such changes.
C10_BurstCoalesced ==
  audit.gap < DebounceTime => ~audit.firedBetween

\* C11: a SubmitAnswer call makes at least one and at most MaxRetries save
\* attempts on each file it writes, broadcasts FileWriteFailure if and only
\* if none of its saves succeeded, and does so again on every later call,
\* also after a call whose saves all failed.
C11_WriteRetriesAndFailure ==
  last.op = "SubmitAnswer" =>
    /\ writes.usdaAttempts <= MaxRetries
    /\ writes.answerAttempts <= MaxRetries
    /\ writes.usdaAttempts + writes.answerAttempts >= 1
    /\ ("FileWriteFailure" \in ErrorCodes(last.events)) <=> (last.wrote = "none")

\* a SubmitAnswer that saved its answer after an earlier one had failed
C11_SubmitAfterFailure ==
  /\ last.op = "SubmitAnswer"
  /\ writes.afterFailure
  /\ last.wrote # "none"
  /\ writes.usdaAttempts + writes.answerAttempts > 1

\* C12: when SendAcknowledge attempts the text-format save and ends up not
\* having saved the text format, it has made MaxRetries attempts on it.
C12_AcknowledgeRetriesTextWrite ==
  last.op = "SendAcknowledge" /\ writes.usdaAttempts > 0 /\ last.wrote # "usda"
    => writes.usdaAttempts = MaxRetries

\* C13: every SubmitAnswer call records exactly one response in the
\* behavioral signals, with the submitted response time as the last one.
C13_SubmitRunsSignalEngine ==
  last.op = "SubmitAnswer" =>
    /\ Signals.TotalResponsesRecorded = writes.recordedBefore + 1
    /\ Signals.LastResponseTimeMs = writes.ResponseTimeMs

\* the counters of the behavioral signals
Counters(sig) == <<sig.HesitationCount, sig.RapidClickCount, sig.TotalResponsesRecorded>>

\* C14: while the bridge stays started, no operation decreases the
\* hesitation, rapid-click or total-response counter.
C14_CountersNeverDecrease ==
  [][bIsActive /\ bIsActive' =>
       \A i \in 1 .. 3 : Counters(Signals')[i] >= Counters(Signals)[i]]_vars

\* a started bridge on which each of the three counters has increased
C14_CountersIncreased ==
  /\ bIsActive
  /\ last.op = "SubmitAnswer"
  /\ \A i \in 1 .. 3 : Counters(Signals)[i] > 0

\* C15: a StartGame that follows a StopGame leaves the counters at 0 and the
\* response-time history empty, and no other operation resets them.
C15_SignalsResetOnRestart ==
  [][IF last.op = "StopGame" /\ ~bIsActive /\ bIsActive'
       THEN Counters(Signals') = <<0, 0, 0>> /\ ResponseTimes' = <<>>
       ELSE (Counters(Signals) # <<0, 0, 0>> => Counters(Signals') # <<0, 0, 0>>)
            /\ (ResponseTimes # <<>> => ResponseTimes' # <<>>)]_vars

\* C16: while the bridge stays started, bUsingUsdMode, once set, stays set
\* whatever operation runs and whatever message is processed.
C16_TextFormatFlagSticky ==
  [][bIsActive /\ bIsActive' /\ bUsingUsdMode => bUsingUsdMode']_vars

\* C17: a ProcessStateFile call that runs a message handler broadcasts
\* exactly one event.
C17_OneEventPerHandler ==
  last.psf.ran /\ last.psf.calls \cap (JsonHandlers \cup UsdaHandlers) # {}
    => Len(last.psf.events) = 1

\* the condition of routing rule n (lines 1281-1329) on a bridge b whose
\* last answer has just been recorded, and the classification rule n gives
RuleHolds(b, n) ==
  LET Num == Len(b.ResponseTimes)
      TotalTime == SumSeq(b.ResponseTimes)
      t == b.Signals.LastResponseTimeMs
  IN CASE n = 1 -> b.Signals.RapidClickCount > RAPID_CLICK_COUNT_THRESHOLD
       [] n = 2 -> \/ t > HESITATION_THRESHOLD_MS
                   \/ b.Signals.HesitationCount > HESITATION_COUNT_THRESHOLD
       [] n = 3 -> TotalTime > DEPLETED_AVG_THRESHOLD_MS * Num
       [] n = 4 -> Num > 3 /\ t * Num > TotalTime * 2
       [] n = 5 -> b.CurrentQuestion.Index = b.CurrentQuestion.Total - 1
       [] n = 6 -> Num >= 2 /\ t > 3000 /\ t < 8000
       [] OTHER -> TRUE

RuleOutcome(b, n) ==
  CASE n = 1 -> Classification("frustrated", "Validator", "RED", "crashed")
    [] n = 2 -> Classification("stuck", "Scaffolder", "ORANGE", "declining")
    [] n = 3 -> Classification("depleted", "Restorer", "ORANGE", "crashed")
    [] n = 4 -> Classification("distracted", "Refocuser", "YELLOW", "declining")
    [] n = 5 -> Classification("completing", "Celebrator", "GREEN", "peak")
    [] n = 6 -> Classification("exploring", "Socratic", "GREEN", "building")
    [] OTHER -> Classification("focused", "Direct", "GREEN",
                               IF Len(b.ResponseTimes) > 5 THEN "rolling" ELSE "building")

\* C18: after an answer has been recorded, the classification is the one of
\* the lowest-numbered rule whose condition holds.
C18_FirstMatchingRuleDecides ==
  last.op = "SubmitAnswer" /\ last.wrote = "usda" =>
    \A n \in 1 .. 7 :
      RuleHolds(peer, n) /\ (\A m \in 1 .. (n - 1) : ~RuleHolds(peer, m))
        => ClassOf(peer.Signals) = RuleOutcome(peer, n)

\* an answer that is a long hesitation, given after more than three rapid
\* clicks, classified as frustrated with burnout RED
C18_FrustratedBeforeStuck ==
  /\ last.op = "SubmitAnswer" /\ last.wrote = "usda"
  /\ peer.Signals.RapidClickCount > RAPID_CLICK_COUNT_THRESHOLD
  /\ peer.Signals.LastResponseTimeMs > HESITATION_THRESHOLD_MS
  /\ peer.Signals.DetectedState = "frustrated"
  /\ peer.Signals.BurnoutLevel = "RED"

\* C19: a submitted response time of exactly 10000 ms does not count as a
\* hesitation, one of exactly 500 ms does not count as a rapid click, and
\* the first answer submitted after StartGame does not count as a rapid
\* click.
C19_StrictThresholdsAndFirstResponse ==
  [][last'.op = "SubmitAnswer" =>
       /\ writes'.ResponseTimeMs = HESITATION_THRESHOLD_MS
            => Signals'.HesitationCount = Signals.HesitationCount
       /\ writes'.ResponseTimeMs = RAPID_CLICK_THRESHOLD_MS
            => Signals'.RapidClickCount = Signals.RapidClickCount
       /\ last.op = "StartGame" /\ bIsActive
            => Signals'.RapidClickCount = Signals.RapidClickCount]_vars

\* the attribute lines of a document other than the lines named AttrName of
\* the prims named PrimName
OtherLines(Content, PrimName, AttrName) ==
  {p \in {<<i, j>> : i \in DOMAIN Content, j \in 1..MaxLines} :
     /\ p[2] \in DOMAIN Content[p[1]].attrs
     /\ ~(Content[p[1]].name = PrimName /\ Content[p[1]].attrs[p[2]].name = AttrName)}

\* C20: after UpdateUsdaAttribute(doc, block, attr, v), ParseUsdaAttribute
\* on the same block and attribute returns v, and every other attribute line
\* of the document, an attribute of the same name in another block
\* included, is what it was before the write.
C20_WriteThenReadAndNothingElse ==
  stage.op = "update" =>
    /\ ParseUsdaAttribute(stage.doc, stage.PrimName, stage.AttrName) = stage.NewValue
    /\ \A p \in OtherLines(stage.before, stage.PrimName, stage.AttrName) :
         stage.doc[p[1]].attrs[p[2]] = stage.before[p[1]].attrs[p[2]]

C22_StartProcessesExistingFile ==
  [][(~bIsActive /\ last'.op = "StartGame") =>
       /\ bIsActive'
       /\ last'.psf.ran = (usdaFile.exists \/ jsonFile.exists)
       /\ last'.events = last'.psf.events
       /\ CurrentState' = "WaitingForBridge" \/ (last'.psf.ran /\ ~last'.psf.unchanged)
       /\ (usdaFile.exists /\ usdaFile.doc.message_type = "ready" /\ ~last'.psf.failed)
            => /\ CurrentState' = "Connected"
               /\ \E i \in DOMAIN last'.events : last'.events[i].name = "OnBridgeReady"]_vars

\* StartGame has found a ready message and connected
C22_ConnectedOnStart ==
  /\ last.op = "StartGame" /\ last.psf.ran
  /\ CurrentState = "Connected" /\ last.events # <<>>

\* C23: within a session the state follows Idle, WaitingForBridge,
\* Connected, QuestionActive, AnswerPending, Transitioning, Complete: no
\* step of an active bridge leads from Idle or WaitingForBridge (no ready
\* message processed yet in the session) to QuestionActive, AnswerPending,
\* Transitioning or Complete, and AnswerPending is entered from
\* QuestionActive only.
C23_DeclaredSequence ==
  [][bIsActive' =>
       /\ CurrentState \in {"Idle", "WaitingForBridge"}
            => CurrentState' \notin {"QuestionActive", "AnswerPending",
                                     "Transitioning", "Complete"}
       /\ (CurrentState' = "AnswerPending" /\ CurrentState # "AnswerPending")
            => CurrentState = "QuestionActive"]_vars

\* C24: the Error state is reachable from any state: after a failure (a
\* state file that cannot be loaded or parsed, a write that fails after its
\* retries, a profile that cannot be parsed) CurrentState is Error.
C24_FailureEntersError ==
  (last.psf.failed \/ ErrorCodes(last.events) # {}) => CurrentState = "Error"

\* C25: IsBridgeConnected returns true only once the backend has connected:
\* it returns false while the bridge is in WaitingForBridge, and after an
\* operation of an active bridge it returns true only if a ready handler
\* has run in that operation or the state was already past WaitingForBridge.
C25_ConnectedMeansBackend ==
  [][(IsBridgeConnected' /\ bIsActive') =>
       /\ CurrentState' # "WaitingForBridge"
       /\ \/ CurrentState \notin {"Idle", "WaitingForBridge"}
          \/ last'.psf.calls \cap {"HandleReadyState", "HandleUsdaReadyState"} # {}]_vars

\* C26: processing the text encoding and the JSON encoding of the same
\* message from the same state leaves the same CurrentState and the same
\* CurrentQuestion and emits the same events with the same payload.
C26_FeatureParity ==
  last.op = "ProcessStateFile" =>
    /\ peer.CurrentState = CurrentState
    /\ peer.CurrentQuestion = CurrentQuestion
    /\ peer.events = last.events

C28_TraitsOfTheDocument ==
  (last.op = "ParseCognitiveProfile" /\ parsed.read) =>
    \A i \in DOMAIN profileDoc.Traits :
      LET key == profileDoc.Traits[i][1]
          held == {j \in DOMAIN parsed.ret.Traits :
                     parsed.ret.Traits[j].Label = <<profileDoc.Traits[i][2]>>}
      IN /\ Cardinality(held) = 1
         /\ \A j \in held :
              LET Trait == parsed.ret.Traits[j]
              IN /\ key \in {"load", "pace", "uncertainty", "feedback", "recovery",
                             "starting", "completion", "essence"}
                      => /\ Trait.Dimension =
                              CASE key = "load" -> "cognitive_density"
                                [] key = "pace" -> "processing_pace"
                                [] key = "uncertainty" -> "uncertainty_tolerance"
                                [] key = "feedback" -> "feedback_style"
                                [] key = "recovery" -> "home_altitude"
                                [] key = "starting" -> "guidance_frequency"
                                [] key = "completion" -> "default_paradigm"
                                [] key = "essence" -> "tangent_tolerance"
                         /\ \A k \in DOMAIN profileDoc.Profile :
                              profileDoc.Profile[k][1] = Trait.Dimension
                                => Trait.Score = profileDoc.Profile[k][2]
                 /\ key \notin {"load", "pace", "uncertainty", "feedback", "recovery",
                                "starting", "completion", "essence"}
                      => Trait.Dimension = key /\ Trait.Score = 50
                 /\ Trait.Behavior[1] = IF Trait.Score >= 70 THEN "Strong"
                                        ELSE IF Trait.Score <= 30 THEN "Measured"
                                        ELSE "Balanced"

\* a parsed document with a strong, a measured and a balanced trait and a
\* trait whose key is not in the table
C28_AllPhrasesParsed ==
  /\ last.op = "ParseCognitiveProfile" /\ parsed.read
  /\ \E a, b, c, d \in DOMAIN parsed.ret.Traits :
       /\ parsed.ret.Traits[a].Score = 72 /\ parsed.ret.Traits[a].Behavior[1] = "Strong"
       /\ parsed.ret.Traits[b].Score = 30 /\ parsed.ret.Traits[b].Behavior[1] = "Measured"
       /\ parsed.ret.Traits[c].Dimension = "rhythm"
       /\ d = 3 /\ Len(parsed.ret.Traits) = 3

\* C29: a call of ParseCognitiveProfile that cannot load its file returns
\* an empty Profile, broadcasts exactly one ProfileParseFailure and leaves
\* CurrentState and CurrentQuestion as they were.
C29_UnreadableProfile ==
  [][(last'.op = "ParseCognitiveProfile" /\ ~parsed'.read) =>
       /\ parsed'.ret.Traits = <<>> /\ parsed'.ret.Checksum = <<>>
       /\ parsed'.ret = EmptyProfile
       /\ last'.events = <<OnBridgeError("ProfileParseFailure")>>
       /\ CurrentState' = CurrentState
       /\ CurrentQuestion' = CurrentQuestion]_vars

\* a failed parse on a bridge with an active question
C29_FailedWhileQuestionActive ==
  /\ last.op = "ParseCognitiveProfile" /\ ~parsed.read
  /\ CurrentState = "QuestionActive"
  /\ profileFile.exists

\* C30: the Question emitted for a question message of index i >= 0, in
\* either format, has the depth label SURFACE for i in {0, 1}, PATTERNS for
\* i in {2, 3}, FEELINGS for i in {4, 5} and CORE for every i >= 6.
C30_DepthLabelOfIndex ==
  last.op = "ProcessStateFile" =>
    \A evs \in {last.events, peer.events} : \A k \in DOMAIN evs :
      (evs[k].name = "OnQuestionReady" /\ evs[k].q.Index >= 0) =>
        evs[k].q.DepthLabel = IF evs[k].q.Index <= 1 THEN "SURFACE"
                              ELSE IF evs[k].q.Index <= 3 THEN "PATTERNS"
                              ELSE IF evs[k].q.Index <= 5 THEN "FEELINGS"
                              ELSE "CORE"

\* a question of index 8 has been emitted as CORE in both formats
C30_NinthQuestionIsCore ==
  /\ last.op = "ProcessStateFile"
  /\ \A evs \in {last.events, peer.events} :
       /\ Len(evs) = 1
       /\ evs[1].name = "OnQuestionReady"
       /\ evs[1].q.Index = 8
       /\ evs[1].q.DepthLabel = "CORE"

\* C31: when an answer is recorded, none of the rules 1 to 5 matches and at
\* least 2 responses have been recorded, a response time t with
\* 3000 <= t < 8000 is classified exploring with momentum building and
\* burnout GREEN, and a response time of exactly 8000 is not exploring.
C31_ExploringFromThreeSeconds ==
  [][(/\ last'.op = "SubmitAnswer"
      /\ Len(ResponseTimes') = Len(ResponseTimes) + 1
      /\ Len(ResponseTimes') >= 2
      /\ \A n \in 1 .. 5 : ~RuleHolds(Self, n)') =>
       /\ (3000 <= writes'.ResponseTimeMs /\ writes'.ResponseTimeMs < 8000)
            => /\ Signals'.DetectedState = "exploring"
               /\ Signals'.MomentumPhase = "building"
               /\ Signals'.BurnoutLevel = "GREEN"
       /\ writes'.ResponseTimeMs = 8000 => Signals'.DetectedState # "exploring"]_vars

\* C32: the text-format writes are idempotent: after an UpdateUsdaVariant
\* or an UpdateUsdaAttribute, applying the same call once more leaves the
\* document as it is, for every value, a value holding a double quote or a
\* backslash included.
C32_WritesIdempotent ==
  /\ stage.op = "update" =>
       UpdateUsdaAttribute(stage.doc, stage.PrimName, stage.AttrName,
                           stage.NewValue, stage.bIsString) = stage.doc
  /\ stage.op = "variant" =>
       UpdateUsdaVariant(stage.doc, stage.AttrName, stage.NewValue) = stage.doc

\* C33: the text-format writes are order-independent: a write that was
\* applied and any write to a different target (another attribute, or the
\* attribute of the same name in another block, such as timestamp of Answer
\* and timestamp of Ack) give the same document in either order.
C33_WritesOrderIndependent ==
  stage.op = "update" =>
    \A PrimName \in StagePrims, AttrName \in StageStrings \cup StageNumbers,
       NewValue \in StringValues \cup NumberValues :
      (/\ <<PrimName, AttrName>> # <<stage.PrimName, stage.AttrName>>
       /\ NewValue \in StringValues <=> AttrName \in StageStrings) =>
        UpdateUsdaAttribute(stage.doc, PrimName, AttrName, NewValue,
                            AttrName \in StageStrings)
          = UpdateUsdaAttribute(
              UpdateUsdaAttribute(stage.before, PrimName, AttrName, NewValue,
                                  AttrName \in StageStrings),
              stage.PrimName, stage.AttrName, stage.NewValue, stage.bIsString)

\* the lines between the first header of a prim named PrimPath and the
\* closing brace that matches it, the lines of child prims included; the
\* whole document when there is no such header
BalancedBody(Content, PrimPath) ==
  LET text == UsdaText(Content)
      prims == {i \in DOMAIN text : text[i].type = "def" /\ text[i].name = PrimPath}
      Count(from, to, type) == Cardinality({k \in from .. to : text[k].type = type})
  IN IF prims = {} THEN AllLines(Content)
     ELSE LET h == CHOOSE i \in prims : \A other \in prims : i <= other
              matching == {k \in (h + 1) .. Len(text) :
                             /\ text[k].type = "}"
                             /\ Count(h + 1, k - 1, "def") = Count(h + 1, k - 1, "}")}
          IN SubSeq(text, h + 1,
                    (CHOOSE k \in matching : \A other \in matching : k <= other) - 1)

\* C34: ParseUsdaAttribute(content, block, attr) returns what the search of
\* the balanced-brace body of the named block finds (string, then int, then
\* float or double, else ""): an attribute declared after a nested child
\* block is found, nothing beyond the matching closing brace is searched,
\* and the whole document is searched only when the header is absent.
C34_BalancedBodySearched ==
  stage.op = "parse" =>
    LET Body == BalancedBody(stage.doc, stage.PrimName)
        s == FirstCapture(Body, {"string"}, stage.AttrName)
        n == FirstCapture(Body, {"int"}, stage.AttrName)
        f == FirstCapture(Body, {"float", "double"}, stage.AttrName)
    IN stage.NewValue = IF s # Unmatched THEN s
                        ELSE IF n # Unmatched THEN n
                        ELSE IF f # Unmatched THEN f
                        ELSE <<>>

\* C35: a message the orchestrator wrote to bridge_state.usda is never lost
\* to a write of the bridge: a save of SubmitAnswer or SendAcknowledge
\* leaves in the file what the file held just before it, but for the
\* message type and the sync status that the call sets, also when the
\* orchestrator wrote the file after the call had loaded it.
C35_OrchestratorMessageKept ==
  [][(last'.op \in {"SubmitAnswer", "SendAcknowledge"} /\ last'.wrote = "usda") =>
       usdaFile'.doc = [usdaFile.doc EXCEPT
                          !.message_type = usdaFile'.doc.message_type,
                          !.sync_status = usdaFile'.doc.sync_status]]_vars

\* C36: each modification of the state file is dispatched to a message
\* handler at most once by the change detection: a ProcessStateFile that a
\* poll-detected change makes a Tick run never hands to a handler a
\* modification that was dispatched before, by StartGame included.
C36_ModificationDispatchedOnce ==
  (last.op = "Tick" /\ audit.fired /\ audit.origin = "poll") => ~audit.redispatched

\* C37: CurrentState is Idle exactly when the bridge is not active: no
\* operation on a bridge that is stopped or was never started, SubmitAnswer
\* and SendAcknowledge included, moves the state away from Idle, and an
\* active bridge is never Idle.
C37_IdleIffInactive == (CurrentState = "Idle") <=> ~bIsActive

\* C38: while the bridge stays active and keeps ticking, a write to
\* state.json made after bridge_state.usda was removed leads to a
\* ProcessStateFile, and a write to either profile file leads to a
\* profile-file-updated event, whatever the modification time of the write
\* is with respect to the time last recorded.
C38_EveryModificationProcessed ==
  /\ (bIsActive /\ last.op = "OrchWriteJson") ~> (last.op = "Tick" /\ last.psf.ran)
  /\ (bIsActive /\ last.op = "OrchWriteProfile")
       ~> (last.op = "Tick" /\ \E i \in DOMAIN last.events :
                                 last.events[i].name = "OnUsdProfileUpdated")

\* C39: with WriteFrame running on the render thread while another thread
\* reads, a ReadLatest or ReadLatestWithMetadata that returns true delivers
\* the pixels, the size, the frame number and the timestamp of one single
\* completed WriteFrame, never a mix of two frames.
C39_ReadDeliversOneFrame ==
  (bus.r.pc = "return" /\ bus.r.ret) =>
    \E k \in 1 .. MaxFrames :
      /\ bus.r.Out.Pixels = k /\ bus.r.Out.Size = k
      /\ bus.r.Out.FrameNumber = k /\ bus.r.Out.Timestamp = k

\* C40: the HUD submits at most one answer per displayed question: between
\* two question-received events SendAnswer is called at most once, for
\* every sequence of clicks, number keys and ticks, also when the next
\* question does not arrive within the wait of 10 seconds.
C40_OneAnswerPerQuestion == hud.sent <= 1

====
